---- MODULE Spec2Model ----
(***************************************************************************)
(* Model of the path-based access / set / equality functions of            *)
(* src/functions.ts (safeAccess, safeSet, safeEqual, getAccessorList).     *)
(*                                                                         *)
(* JavaScript values are records of one uniform shape:                     *)
(*   t    : "undefined" | "null" | "boolean" | "number" | "string" |       *)
(*          "function" | "object" | "array"                                *)
(*   n, d : the number n/d (d = 0: NaN when n = 0, +/-Infinity when        *)
(*          n = 1 / -1); for a boolean n is 1 or 0; for an array n is its  *)
(*          length; for a function n names the function                    *)
(*   s    : the characters of a string (a sequence of 1-character strings) *)
(*   keys : the own property names of an object or array, in the order     *)
(*          for-in / Object.keys visits them                               *)
(*   vals : the own property values, parallel to keys                      *)
(*   pr   : the [[Prototype]]: "Object" (Object.prototype), "Array"        *)
(*          (Array.prototype), "null", "custom" (then pv = <<prototype>>)  *)
(*   id   : -1 for Object.prototype itself, -2 for the other built-in      *)
(*          prototypes, 0 for values of the program                        *)
(***************************************************************************)
EXTENDS Integers, Sequences, FiniteSets, TLC

VARIABLES data, ObjectProto, call, pc

vars == <<data, ObjectProto, call, pc>>

---------------------------------------------------------------------------
(* Strings *)

DOT == "."

PROTO == <<"_", "_", "p", "r", "o", "t", "o", "_", "_">>

LENGTH == <<"l", "e", "n", "g", "t", "h">>

CONSTRUCTOR == <<"c", "o", "n", "s", "t", "r", "u", "c", "t", "o", "r">>

TOSTRING == <<"t", "o", "S", "t", "r", "i", "n", "g">>

BOGUS == <<"b", "o", "g", "u", "s">>

ARR == <<"a", "r", "r">>

DigitChars == <<"0", "1", "2", "3", "4", "5", "6", "7", "8", "9">>

IsDigit(c) == \E i \in 1..10 : DigitChars[i] = c

DigitVal(c) == (CHOOSE i \in 1..10 : DigitChars[i] = c) - 1

AllDigits(str) == Len(str) > 0 /\ \A i \in 1..Len(str) : IsDigit(str[i])

RECURSIVE Pow10(_)
Pow10(e) == IF e = 0 THEN 1 ELSE 10 * Pow10(e - 1)

RECURSIVE DecimalValue(_)
DecimalValue(str) ==
    IF Len(str) = 0 THEN 0
    ELSE 10 * DecimalValue(SubSeq(str, 1, Len(str) - 1)) + DigitVal(str[Len(str)])

RECURSIVE DecimalString(_)
DecimalString(k) ==
    IF k < 10 THEN <<DigitChars[k + 1]>>
    ELSE DecimalString(k \div 10) \o <<DigitChars[(k % 10) + 1]>>

(* String.prototype.split('.') *)
RECURSIVE split(_)
split(str) ==
    IF \A i \in 1..Len(str) : str[i] # DOT THEN <<str>>
    ELSE LET i == CHOOSE j \in 1..Len(str) :
                     str[j] = DOT /\ \A m \in 1..(j - 1) : str[m] # DOT
         IN  <<SubSeq(str, 1, i - 1)>> \o split(SubSeq(str, i + 1, Len(str)))

(* the template literal written without its separator *)
JoinKey_NoSeparator(key, childKey) == key \o childKey

(* the template literal `${key}.${childKey}` *)
JoinKey(key, childKey) == key \o <<DOT>> \o childKey

(* a canonical array index: "0", or digits without a leading zero *)
IsArrayIndex(k) == AllDigits(k) /\ (Len(k) = 1 \/ k[1] # "0")

---------------------------------------------------------------------------
(* Values *)

Val(t, n, d, s, keys, vals, pr, pv, id) ==
    [t |-> t, n |-> n, d |-> d, s |-> s, keys |-> keys, vals |-> vals,
     pr |-> pr, pv |-> pv, id |-> id, fz |-> FALSE]

Undefined == Val("undefined", 0, 1, <<>>, <<>>, <<>>, "none", <<>>, 0)

Null == Val("null", 0, 1, <<>>, <<>>, <<>>, "none", <<>>, 0)

Num(k) == Val("number", k, 1, <<>>, <<>>, <<>>, "none", <<>>, 0)

Rat(k, m) == Val("number", k, m, <<>>, <<>>, <<>>, "none", <<>>, 0)

NaN == Rat(0, 0)

Bool(b) == Val("boolean", IF b THEN 1 ELSE 0, 1, <<>>, <<>>, <<>>, "none", <<>>, 0)

Str(chars) == Val("string", 0, 1, chars, <<>>, <<>>, "none", <<>>, 0)

Fn(k) == Val("function", k, 1, <<>>, <<>>, <<>>, "none", <<>>, 0)

(* an object literal { k1: v1, ... } *)
Obj(keys, vals) == Val("object", 0, 1, <<>>, keys, vals, "Object", <<>>, 0)

EmptyObject == Obj(<<>>, <<>>)

(* an array literal [ v0, v1, ... ] *)
Arr(elems) ==
    Val("array", Len(elems), 1, <<>>,
        [i \in 1..Len(elems) |-> DecimalString(i - 1)], elems, "Array", <<>>, 0)

(* Object.prototype before the program touches it: constructor, toString *)
PristineObjectProto ==
    Val("object", 0, 1, <<>>, <<CONSTRUCTOR, TOSTRING>>, <<Fn(1), Fn(2)>>, "null", <<>>, -1)

(* Array.prototype, String.prototype, ... : of their own properties only *)
(* constructor, which is not Object, is modelled                         *)
BuiltinProto == Val("object", 0, 1, <<>>, <<CONSTRUCTOR>>, <<Fn(4)>>, "Object", <<>>, -2)

(* typeof v *)
typeof(v) ==
    CASE v.t = "null" -> "object"
      [] v.t = "array" -> "object"
      [] OTHER -> v.t

(* Array.isArray(v) *)
isArray(v) == v.t = "array"

(* isObject, functions.ts:243-246 and 1344-1347 *)
isObject(value) == value.t # "null" /\ typeof(value) = "object" /\ ~isArray(value)

(* a === b; two distinct objects of the program are never identical *)
StrictEquals(a, b) ==
    CASE a.t # b.t -> FALSE
      [] a.t \in {"undefined", "null"} -> TRUE
      [] a.t = "number" -> (a.n # 0 \/ a.d # 0) /\ a.n = b.n /\ a.d = b.d
      [] a.t = "boolean" -> a.n = b.n
      [] a.t = "string" -> a.s = b.s
      [] a.t = "function" -> a.n = b.n
      [] OTHER -> a.id # 0 /\ a.id = b.id

---------------------------------------------------------------------------
(* Numbers: the unary plus of functions.ts:435 applied to a string *)

RECURSIVE Gcd(_, _)
Gcd(a, b) == IF b = 0 THEN a ELSE Gcd(b, a % b)

Abs(k) == IF k < 0 THEN 0 - k ELSE k

(* the number k/m in lowest terms, m > 0 *)
Ratio(k, m) == LET g == Gcd(Abs(k), m) IN Rat(k \div g, m \div g)

RECURSIVE TrimLeft(_)
TrimLeft(str) ==
    IF Len(str) > 0 /\ str[1] = " " THEN TrimLeft(Tail(str)) ELSE str

RECURSIVE TrimRight(_)
TrimRight(str) ==
    IF Len(str) > 0 /\ str[Len(str)] = " "
    THEN TrimRight(SubSeq(str, 1, Len(str) - 1)) ELSE str

(* the position of the exponent mark of a decimal literal, 0 when none *)
ExponentAt(str) ==
    IF \E i \in 1..Len(str) : str[i] \in {"e", "E"}
    THEN CHOOSE i \in 1..Len(str) :
             str[i] \in {"e", "E"} /\ \A j \in 1..(i - 1) : str[j] \notin {"e", "E"}
    ELSE 0

(* an unsigned decimal literal without a fraction: digits, or digits e[+-]digits *)
UnsignedDecimal(str) ==
    LET e == ExponentAt(str) IN
    IF e = 0
    THEN IF AllDigits(str) THEN Num(DecimalValue(str)) ELSE NaN
    ELSE LET mant == SubSeq(str, 1, e - 1)
             rest == SubSeq(str, e + 1, Len(str))
             neg  == Len(rest) > 0 /\ rest[1] = "-"
             exp  == IF Len(rest) > 0 /\ rest[1] \in {"+", "-"} THEN Tail(rest) ELSE rest
         IN  IF AllDigits(mant) /\ AllDigits(exp)
             THEN IF neg THEN Ratio(DecimalValue(mant), Pow10(DecimalValue(exp)))
                         ELSE Num(DecimalValue(mant) * Pow10(DecimalValue(exp)))
             ELSE NaN

INFINITY == <<"I", "n", "f", "i", "n", "i", "t", "y">>

(* StringToNumber: white space is trimmed, the empty string is 0, a sign *)
(* may precede a decimal literal or Infinity, anything else is NaN.      *)
(* (Literals with a radix prefix or a fraction use characters that no    *)
(* accessor segment of the model contains.)                              *)
ToNumber(str) ==
    LET t == TrimRight(TrimLeft(str)) IN
    IF Len(t) = 0 THEN Num(0)
    ELSE LET signed == t[1] \in {"+", "-"}
             body   == IF signed THEN Tail(t) ELSE t
             u      == IF body = INFINITY THEN Rat(1, 0) ELSE UnsignedDecimal(body)
         IN  IF signed /\ t[1] = "-" THEN Rat(0 - u.n, u.d) ELSE u

(* Number.isInteger(x) *)
isInteger(x) == x.t = "number" /\ x.d = 1

---------------------------------------------------------------------------
(* Property access: v[k] and v[k] = val *)

HasOwn(v, k) == \E i \in 1..Len(v.keys) : v.keys[i] = k

OwnIndex(v, k) == CHOOSE i \in 1..Len(v.keys) : v.keys[i] = k

OwnValue(v, k) == v.vals[OwnIndex(v, k)]

(* Object.getPrototypeOf(v) for an object or array v *)
ProtoOf(v, OP) ==
    CASE v.id = -1 -> Null
      [] v.pr = "Object" -> OP
      [] v.pr = "Array" -> BuiltinProto
      [] v.pr = "custom" -> v.pv[1]
      [] OTHER -> Null

(* whether the prototype chain of v ends in Object.prototype, where the *)
(* accessor property __proto__ lives                                    *)
RECURSIVE ReachesObjectProto(_)
ReachesObjectProto(v) ==
    CASE v.t \notin {"object", "array"} -> v.t \notin {"undefined", "null"}
      [] v.id = -1 -> TRUE
      [] v.pr \in {"Object", "Array"} -> TRUE
      [] v.pr = "custom" -> ReachesObjectProto(v.pv[1])
      [] OTHER -> FALSE

(* v[k] for a v that is neither null nor undefined *)
RECURSIVE Get(_, _, _)
Get(v, k, OP) ==
    IF v.t \in {"object", "array"}
    THEN CASE HasOwn(v, k) -> OwnValue(v, k)
           [] v.t = "array" /\ k = LENGTH -> Num(v.n)
           [] k = PROTO -> IF ReachesObjectProto(v) THEN ProtoOf(v, OP) ELSE Undefined
           [] v.id = -1 \/ v.pr = "null" -> Undefined
           [] OTHER -> Get(ProtoOf(v, OP), k, OP)
    ELSE CASE v.t = "string" /\ IsArrayIndex(k) /\ DecimalValue(k) < Len(v.s) ->
                  Str(<<v.s[DecimalValue(k) + 1]>>)
           [] v.t = "string" /\ k = LENGTH -> Num(Len(v.s))
           [] k = PROTO -> IF v.t = "function" THEN Fn(0) ELSE BuiltinProto
           [] OTHER -> Get(BuiltinProto, k, OP)

ReplaceOwn(v, k, val) == [v EXCEPT !.vals[OwnIndex(v, k)] = val]

(* the position a new own key takes in the order of for-in: array indices *)
(* ascending first, then the other names in the order they were added     *)
InsertAt(v, k) ==
    IF IsArrayIndex(k)
    THEN 1 + Cardinality({i \in 1..Len(v.keys) :
                 IsArrayIndex(v.keys[i]) /\ DecimalValue(v.keys[i]) < DecimalValue(k)})
    ELSE Len(v.keys) + 1

InsertSeq(seq, i, e) == SubSeq(seq, 1, i - 1) \o <<e>> \o SubSeq(seq, i, Len(seq))

AddOwn(v, k, val) ==
    LET i == InsertAt(v, k) IN
    [v EXCEPT !.keys = InsertSeq(v.keys, i, k),
              !.vals = InsertSeq(v.vals, i, val),
              !.n = IF v.t = "array" /\ IsArrayIndex(k) /\ DecimalValue(k) >= v.n
                    THEN DecimalValue(k) + 1 ELSE v.n]

(* Object.setPrototypeOf(v, val), val an object, a function or null *)
SetPrototype(v, val) ==
    CASE val.t = "null" -> [v EXCEPT !.pr = "null", !.pv = <<>>]
      [] val.id = -1 -> [v EXCEPT !.pr = "Object", !.pv = <<>>]
      [] OTHER -> [v EXCEPT !.pr = "custom", !.pv = <<val>>]

(* the outcome of an assignment: the object assigned to, Object.prototype *)
(* (the same object when node is Object.prototype), and whether it threw  *)
Assigned(node, OP) ==
    [node |-> node, op |-> IF node.id = -1 THEN node ELSE OP, st |-> "ok"]

Thrown(node, OP) == [node |-> node, op |-> OP, st |-> "TypeError"]

(* v[k] = val in strict mode, v an object or array; a frozen v throws *)
Put(v, k, val, OP) ==
    CASE v.fz -> Thrown(v, OP)
      [] HasOwn(v, k) -> Assigned(ReplaceOwn(v, k, val), OP)
      [] v.t = "array" /\ k = LENGTH ->
             IF isInteger(val) /\ val.n >= 0
             THEN LET keep == {i \in 1..Len(v.keys) :
                                 ~IsArrayIndex(v.keys[i]) \/ DecimalValue(v.keys[i]) < val.n}
                      pick(seq) == [j \in 1..Cardinality(keep) |->
                                      seq[CHOOSE i \in keep :
                                            Cardinality({m \in keep : m < i}) = j - 1]]
                  IN  Assigned([v EXCEPT !.n = val.n, !.keys = pick(v.keys),
                                         !.vals = pick(v.vals)], OP)
             ELSE [node |-> v, op |-> OP, st |-> "RangeError"]
      [] k = PROTO /\ ReachesObjectProto(v) ->
             IF val.t \in {"object", "array", "null", "function"}
             THEN IF v.id = -1
                  THEN IF val.t = "null" THEN Assigned(v, OP) ELSE Thrown(v, OP)
                  ELSE Assigned(SetPrototype(v, val), OP)
             ELSE Assigned(v, OP)
      [] OTHER -> Assigned(AddOwn(v, k, val), OP)

---------------------------------------------------------------------------
(* Operators of the compound assignments +=, -=, *=, /= *)

(* the number of fraction digits of k/m, at most 16 *)
RECURSIVE FractionDigits(_, _)
FractionDigits(m, e) ==
    IF e = 16 \/ Pow10(e) % m = 0 THEN e ELSE FractionDigits(m, e + 1)

RECURSIVE ZeroPad(_, _)
ZeroPad(str, len) == IF Len(str) >= len THEN str ELSE ZeroPad(<<"0">> \o str, len)

RECURSIVE DropZeros(_)
DropZeros(str) ==
    IF Len(str) > 0 /\ str[Len(str)] = "0"
    THEN DropZeros(SubSeq(str, 1, Len(str) - 1)) ELSE str

(* Number.prototype.toString for the number x *)
NumberString(x) ==
    CASE x.d = 0 /\ x.n = 0 -> <<"N", "a", "N">>
      [] x.d = 0 /\ x.n > 0 -> INFINITY
      [] x.d = 0 -> <<"-">> \o INFINITY
      [] x.d = 1 -> (IF x.n < 0 THEN <<"-">> ELSE <<>>) \o DecimalString(Abs(x.n))
      [] OTHER ->
           LET e    == FractionDigits(x.d, 1)
               q    == (Abs(x.n) * Pow10(e)) \div x.d
               frac == DropZeros(ZeroPad(DecimalString(q % Pow10(e)), e))
           IN  (IF x.n < 0 THEN <<"-">> ELSE <<>>)
                 \o DecimalString(q \div Pow10(e)) \o <<DOT>> \o frac

RECURSIVE ToStringV(_)
RECURSIVE JoinElements(_, _)

(* Array.prototype.join(',') over the elements 0 .. length-1 from index i on *)
JoinElements(v, i) ==
    IF i >= v.n THEN <<>>
    ELSE LET k == DecimalString(i)
             e == IF HasOwn(v, k) THEN OwnValue(v, k) ELSE Undefined
             here == IF e.t \in {"undefined", "null"} THEN <<>> ELSE ToStringV(e)
         IN  here \o (IF i + 1 < v.n THEN <<",">> ELSE <<>>) \o JoinElements(v, i + 1)

(* ToString(v); an object takes Object.prototype.toString *)
ToStringV(v) ==
    CASE v.t = "undefined" -> <<"u", "n", "d", "e", "f", "i", "n", "e", "d">>
      [] v.t = "null" -> <<"n", "u", "l", "l">>
      [] v.t = "boolean" -> IF v.n = 1 THEN <<"t", "r", "u", "e">> ELSE <<"f", "a", "l", "s", "e">>
      [] v.t = "number" -> NumberString(v)
      [] v.t = "string" -> v.s
      [] v.t = "array" -> JoinElements(v, 0)
      [] v.t = "function" -> <<"f", "u", "n", "c", "t", "i", "o", "n">>
      [] OTHER -> <<"[", "o", "b", "j", "e", "c", "t", " ", "O", "b", "j", "e", "c", "t", "]">>

(* ToPrimitive(v): objects, arrays and functions become their string *)
ToPrimitive(v) ==
    IF v.t \in {"object", "array", "function"} THEN Str(ToStringV(v)) ELSE v

(* ToNumber(v) for a primitive v *)
ToNumberV(v) ==
    CASE v.t = "undefined" -> NaN
      [] v.t = "null" -> Num(0)
      [] v.t = "boolean" -> Num(v.n)
      [] v.t = "number" -> v
      [] OTHER -> ToNumber(v.s)

Sign(k) == IF k < 0 THEN -1 ELSE IF k > 0 THEN 1 ELSE 0

NumAdd(x, y) ==
    CASE (x.d = 0 /\ x.n = 0) \/ (y.d = 0 /\ y.n = 0) -> NaN
      [] x.d = 0 /\ y.d = 0 -> IF x.n = y.n THEN x ELSE NaN
      [] x.d = 0 -> x
      [] y.d = 0 -> y
      [] OTHER -> Ratio(x.n * y.d + y.n * x.d, x.d * y.d)

NumNeg(x) == Rat(0 - x.n, x.d)

NumSub(x, y) == NumAdd(x, NumNeg(y))

NumMul(x, y) ==
    CASE (x.d = 0 /\ x.n = 0) \/ (y.d = 0 /\ y.n = 0) -> NaN
      [] x.d = 0 \/ y.d = 0 ->
           IF x.n = 0 \/ y.n = 0 THEN NaN ELSE Rat(Sign(x.n) * Sign(y.n), 0)
      [] OTHER -> Ratio(x.n * y.n, x.d * y.d)

NumDiv(x, y) ==
    CASE (x.d = 0 /\ x.n = 0) \/ (y.d = 0 /\ y.n = 0) -> NaN
      [] x.d = 0 /\ y.d = 0 -> NaN
      [] x.d = 0 -> Rat(IF y.n < 0 THEN 0 - x.n ELSE x.n, 0)
      [] y.d = 0 -> Num(0)
      [] y.n = 0 -> IF x.n = 0 THEN NaN ELSE Rat(Sign(x.n), 0)
      [] OTHER -> Ratio(Sign(y.n) * x.n * y.d, x.d * Abs(y.n))

(* a + b *)
JsAdd(a, b) ==
    LET pa == ToPrimitive(a)
        pb == ToPrimitive(b)
    IN  IF pa.t = "string" \/ pb.t = "string"
        THEN Str(ToStringV(pa) \o ToStringV(pb))
        ELSE NumAdd(ToNumberV(pa), ToNumberV(pb))

(* the subtraction with its operands exchanged *)
JsSub_Swapped(a, b) == NumSub(ToNumberV(ToPrimitive(b)), ToNumberV(ToPrimitive(a)))

(* a - b, a * b, a / b *)
JsSub(a, b) == NumSub(ToNumberV(ToPrimitive(a)), ToNumberV(ToPrimitive(b)))

JsMul(a, b) == NumMul(ToNumberV(ToPrimitive(a)), ToNumberV(ToPrimitive(b)))

JsDiv(a, b) == NumDiv(ToNumberV(ToPrimitive(a)), ToNumberV(ToPrimitive(b)))

---------------------------------------------------------------------------
(* safeAccess *)

ErrNone == "none"

(* the TypeError the engine raises for a property access on null *)
ErrEngine == "TypeError: cannot access a property of null"

Return(v) == [st |-> "return", v |-> v, err |-> ErrNone]

Throw(err) == [st |-> "throw", v |-> Undefined, err |-> err]

(* the loop of functions.ts:318-324 (and 1436-1442) from segment access[1] on *)
RECURSIVE safeAccessWalk(_, _, _, _)
safeAccessWalk(d, access, defaultValue, OP) ==
    IF access = <<>> THEN Return(d)
    ELSE IF d.t \in {"null", "undefined"} THEN Throw(ErrEngine)
    ELSE LET next == Get(d, Head(access), OP) IN
         IF typeof(next) = "undefined" \/ next.t = "null"
         THEN Return(defaultValue)
         ELSE safeAccessWalk(next, Tail(access), defaultValue, OP)

Falsy(v) ==
    \/ v.t \in {"undefined", "null"}
    \/ v.t = "boolean" /\ v.n = 0
    \/ v.t = "number" /\ v.n = 0
    \/ v.t = "string" /\ v.s = <<>>

(* safeAccess testing the resolved value for truthiness instead of null / undefined *)
safeAccess_FalsyDefault(d, accessor, defaultValue, OP) ==
    IF typeof(d) # "object" THEN Return(defaultValue)
    ELSE IF typeof(accessor) # "string" THEN Return(defaultValue)
    ELSE LET r == safeAccessWalk(d, split(accessor.s), defaultValue, OP) IN
         IF r.st = "return" /\ Falsy(r.v) THEN Return(defaultValue) ELSE r

(* functions.ts:310-327 (the same code at 2146-2163) *)
safeAccess(d, accessor, defaultValue, OP) ==
    IF typeof(d) # "object" THEN Return(defaultValue)
    ELSE IF typeof(accessor) # "string" THEN Return(defaultValue)
    ELSE safeAccessWalk(d, split(accessor.s), defaultValue, OP)

(* functions.ts:1424-1444, which also tests data === null *)
safeAccess2(d, accessor, defaultValue, OP) ==
    IF typeof(d) # "object" \/ d.t = "null" THEN Return(defaultValue)
    ELSE IF typeof(accessor) # "string" THEN Return(defaultValue)
    ELSE safeAccessWalk(d, split(accessor.s), defaultValue, OP)

---------------------------------------------------------------------------
(* getAccessorList *)

(* Object.prototype's own constructor and toString are not enumerable *)
Enumerable(d, key) == ~(d.id = -1 /\ key \in {CONSTRUCTOR, TOSTRING})

RECURSIVE _getAccessorList(_)
RECURSIVE forIn(_, _)

(* the loop pushing the accessors of nested objects before the keys of *)
(* the object itself                                                   *)
forIn_NestedFirst(d, i) ==
    LET RECURSIVE part(_, _)
        part(j, nested) ==
            IF j > Len(d.keys) THEN <<>>
            ELSE LET key == d.keys[j]
                     childKeys == _getAccessorList(d.vals[j])
                     isNested == typeof(d.vals[j]) = "object"
                     here == IF ~Enumerable(d, key) \/ isNested # nested THEN <<>>
                             ELSE IF nested
                                  THEN [k \in 1..Len(childKeys) |-> JoinKey(key, childKeys[k])]
                                  ELSE <<key>>
                 IN  here \o part(j + 1, nested)
    IN  part(i, TRUE) \o part(i, FALSE)

(* the body of the for-in loop of functions.ts:951-969 for the keys from *)
(* position i on; hasOwnProperty keeps exactly the own keys              *)
forIn(d, i) ==
    IF i > Len(d.keys) THEN <<>>
    ELSE LET key == d.keys[i]
             childKeys == _getAccessorList(d.vals[i])
             here == IF ~Enumerable(d, key) THEN <<>>
                     ELSE IF typeof(d.vals[i]) = "object"
                          THEN [j \in 1..Len(childKeys) |-> JoinKey(key, childKeys[j])]
                          ELSE <<key>>
         IN  here \o forIn(d, i + 1)

(* functions.ts:947-972; for-in over null visits nothing *)
_getAccessorList(d) ==
    IF d.t \in {"object", "array"} THEN forIn(d, 1) ELSE <<>>

(* functions.ts:95-100 *)
getAccessorList(d) ==
    IF typeof(d) # "object"
    THEN [st |-> "throw", list |-> <<>>,
          err |-> "TypeError: getAccessorList error: 'data' is not an 'object'."]
    ELSE [st |-> "return", list |-> _getAccessorList(d), err |-> ErrNone]

---------------------------------------------------------------------------
(* safeEqual *)

ReturnBool(b) == [st |-> "return", b |-> b, err |-> ErrNone]

ThrowBool(err) == [st |-> "throw", b |-> FALSE, err |-> err]

(* the loop of functions.ts:391-399 over sourceAccessors[cntr ..] *)
RECURSIVE safeEqualLoop(_, _, _, _, _)
safeEqualLoop(source, target, sourceAccessors, cntr, OP) ==
    IF cntr > Len(sourceAccessors) THEN ReturnBool(TRUE)
    ELSE LET accessor == Str(sourceAccessors[cntr])
             sourceObjectValue == safeAccess(source, accessor, Undefined, OP)
             targetObjectValue == safeAccess(target, accessor, Undefined, OP)
         IN  IF sourceObjectValue.st = "throw" THEN ThrowBool(sourceObjectValue.err)
             ELSE IF targetObjectValue.st = "throw" THEN ThrowBool(targetObjectValue.err)
             ELSE IF ~StrictEquals(sourceObjectValue.v, targetObjectValue.v)
                  THEN ReturnBool(FALSE)
                  ELSE safeEqualLoop(source, target, sourceAccessors, cntr + 1, OP)

(* functions.ts:382-402 (the same code at 2218-2238) *)
safeEqual(source, target, OP) ==
    IF typeof(source) = "undefined" \/ source.t = "null"
         \/ typeof(target) = "undefined" \/ target.t = "null"
    THEN ReturnBool(FALSE)
    ELSE LET sourceAccessors == getAccessorList(source) IN
         IF sourceAccessors.st = "throw" THEN ThrowBool(sourceAccessors.err)
         ELSE safeEqualLoop(source, target, sourceAccessors.list, 1, OP)

(* the loop of functions.ts:1505-1513, which reads with the safeAccess of 1424 *)
RECURSIVE safeEqualLoop2(_, _, _, _, _)
safeEqualLoop2(source, target, sourceAccessors, cntr, OP) ==
    IF cntr > Len(sourceAccessors) THEN ReturnBool(TRUE)
    ELSE LET accessor == Str(sourceAccessors[cntr])
             sourceObjectValue == safeAccess2(source, accessor, Undefined, OP)
             targetObjectValue == safeAccess2(target, accessor, Undefined, OP)
         IN  IF ~StrictEquals(sourceObjectValue.v, targetObjectValue.v)
             THEN ReturnBool(FALSE)
             ELSE safeEqualLoop2(source, target, sourceAccessors, cntr + 1, OP)

(* functions.ts:1499-1516, guarded by isObject *)
safeEqual2(source, target, OP) ==
    IF ~isObject(source) \/ ~isObject(target) THEN ReturnBool(FALSE)
    ELSE safeEqualLoop2(source, target, getAccessorList(source).list, 1, OP)

---------------------------------------------------------------------------
(* safeSet *)

(* the outcome of safeSet: the object data refers to after the call,      *)
(* Object.prototype after the call, and "true", "false" or "throw"        *)
SetResult(node, OP, ret, err) == [node |-> node, op |-> OP, ret |-> ret, err |-> err]

(* the guard without its test number < 0 *)
ArrayIndexGuard_AcceptsNegative(d, key) == isArray(d) => isInteger(ToNumber(key))

(* the guard of functions.ts:433-438 *)
ArrayIndexGuard(d, key) ==
    LET number == ToNumber(key) IN
    isArray(d) => ~(~isInteger(number) \/ number.n < 0)

(* the switch with the case 'set' falling through to 'set-undefined' *)
ApplyOperation_SetFallsThrough(d, key, value, operation, OP) ==
    LET cur == Get(d, key, OP)
        known == operation \in {"add", "div", "mult", "set", "set-undefined", "sub"}
        new == CASE operation = "add" -> JsAdd(cur, value)
                 [] operation = "div" -> JsDiv(cur, value)
                 [] operation = "mult" -> JsMul(cur, value)
                 [] operation = "sub" -> JsSub(cur, value)
                 [] OTHER -> value
        writes == CASE operation \in {"add", "div", "mult", "sub"} -> TRUE
                    [] operation \in {"set", "set-undefined"} -> typeof(cur) = "undefined"
                    [] OTHER -> FALSE
        written(put) == IF put.st # "ok" THEN SetResult(d, OP, "throw", put.st)
                        ELSE SetResult(put.node, put.op, "true", ErrNone)
    IN  IF ~known THEN SetResult(d, OP, "true", ErrNone)
        ELSE IF d.t = "null" THEN SetResult(d, OP, "throw", ErrEngine)
        ELSE IF ~writes THEN SetResult(d, OP, "true", ErrNone)
        ELSE written(Put(d, key, new, OP))

(* the switch with the case 'set-undefined' testing !data[access[cntr]] *)
ApplyOperation_SetUndefinedOnFalsy(d, key, value, operation, OP) ==
    LET cur == Get(d, key, OP)
        known == operation \in {"add", "div", "mult", "set", "set-undefined", "sub"}
        new == CASE operation = "add" -> JsAdd(cur, value)
                 [] operation = "div" -> JsDiv(cur, value)
                 [] operation = "mult" -> JsMul(cur, value)
                 [] operation = "sub" -> JsSub(cur, value)
                 [] OTHER -> value
        writes == CASE operation \in {"add", "div", "mult", "set", "sub"} -> TRUE
                    [] operation = "set-undefined" -> Falsy(cur)
                    [] OTHER -> FALSE
        written(put) == IF put.st # "ok" THEN SetResult(d, OP, "throw", put.st)
                        ELSE SetResult(put.node, put.op, "true", ErrNone)
    IN  IF ~known THEN SetResult(d, OP, "true", ErrNone)
        ELSE IF d.t = "null" THEN SetResult(d, OP, "throw", ErrEngine)
        ELSE IF ~writes THEN SetResult(d, OP, "true", ErrNone)
        ELSE written(Put(d, key, new, OP))

(* the switch of functions.ts:442-467 on the slot d[key] *)
ApplyOperation(d, key, value, operation, OP) ==
    LET cur == Get(d, key, OP)
        known == operation \in {"add", "div", "mult", "set", "set-undefined", "sub"}
        new == CASE operation = "add" -> JsAdd(cur, value)
                 [] operation = "div" -> JsDiv(cur, value)
                 [] operation = "mult" -> JsMul(cur, value)
                 [] operation = "sub" -> JsSub(cur, value)
                 [] OTHER -> value
        writes == CASE operation \in {"add", "div", "mult", "set", "sub"} -> TRUE
                    [] operation = "set-undefined" -> typeof(cur) = "undefined"
                    [] OTHER -> FALSE
        written(put) == IF put.st # "ok" THEN SetResult(d, OP, "throw", put.st)
                        ELSE SetResult(put.node, put.op, "true", ErrNone)
    IN  IF ~known THEN SetResult(d, OP, "true", ErrNone)
        ELSE IF d.t = "null" THEN SetResult(d, OP, "throw", ErrEngine)
        ELSE IF ~writes THEN SetResult(d, OP, "true", ErrNone)
        ELSE written(Put(d, key, new, OP))

(* the object holding the property key that d[key] reads, put back with  *)
(* the value child: d itself for an own property, else the prototype     *)
RECURSIVE StoreChild(_, _, _, _)
StoreChild(d, key, child, OP) ==
    CASE HasOwn(d, key) -> Assigned(ReplaceOwn(d, key, child), OP)
      [] key = PROTO /\ d.pr = "custom" -> Assigned([d EXCEPT !.pv = <<child>>], OP)
      [] key = PROTO -> [node |-> d, op |-> IF child.id = -1 THEN child ELSE OP, st |-> "ok"]
      [] d.pr = "custom" ->
           LET up == StoreChild(d.pv[1], key, child, OP) IN
           [node |-> [d EXCEPT !.pv = <<up.node>>], op |-> up.op, st |-> "ok"]
      [] OTHER -> [node |-> d, op |-> IF HasOwn(OP, key) THEN ReplaceOwn(OP, key, child) ELSE OP,
                   st |-> "ok"]

RECURSIVE safeSetWalk(_, _, _, _, _, _)

(* the loop undoing what it has created when a later segment aborts *)
safeSetWalk_RollsBack(d, access, value, operation, createMissing, OP) ==
    LET key == Head(access) IN
    IF ~ArrayIndexGuard(d, key) THEN SetResult(d, OP, "false", ErrNone)
    ELSE IF Len(access) = 1 THEN ApplyOperation(d, key, value, operation, OP)
    ELSE IF d.t = "null" THEN SetResult(d, OP, "throw", ErrEngine)
    ELSE LET made == IF createMissing /\ typeof(Get(d, key, OP)) = "undefined"
                     THEN Put(d, key, EmptyObject, OP)
                     ELSE Assigned(d, OP)
             next == Get(made.node, key, made.op)
         IN  IF made.st # "ok" THEN SetResult(d, OP, "throw", made.st)
             ELSE IF next.t = "null" \/ typeof(next) # "object"
             THEN SetResult(made.node, made.op, "false", ErrNone)
             ELSE LET sub == safeSetWalk(next, Tail(access), value, operation,
                                         createMissing, made.op)
                      back == StoreChild(made.node, key, sub.node, sub.op)
                  IN  IF sub.ret = "false" THEN SetResult(d, OP, "false", ErrNone)
                      ELSE SetResult(back.node, back.op, sub.ret, sub.err)

(* the loop of functions.ts:430-479 from segment access[1] on, d being   *)
(* the object the variable data refers to                                *)
safeSetWalk(d, access, value, operation, createMissing, OP) ==
    LET key == Head(access) IN
    IF ~ArrayIndexGuard(d, key) THEN SetResult(d, OP, "false", ErrNone)
    ELSE IF Len(access) = 1 THEN ApplyOperation(d, key, value, operation, OP)
    ELSE IF d.t = "null" THEN SetResult(d, OP, "throw", ErrEngine)
    ELSE LET made == IF createMissing /\ typeof(Get(d, key, OP)) = "undefined"
                     THEN Put(d, key, EmptyObject, OP)
                     ELSE Assigned(d, OP)
             next == Get(made.node, key, made.op)
         IN  IF made.st # "ok" THEN SetResult(d, OP, "throw", made.st)
             ELSE IF next.t = "null" \/ typeof(next) # "object"
             THEN SetResult(made.node, made.op, "false", ErrNone)
             ELSE LET sub == safeSetWalk(next, Tail(access), value, operation,
                                         createMissing, made.op)
                      back == StoreChild(made.node, key, sub.node, sub.op)
                  IN  SetResult(back.node, back.op, sub.ret, sub.err)

(* functions.ts:421-482 (the same code at 1535-1596 and 2257-2318) *)
safeSet(d, accessor, value, operation, createMissing, OP) ==
    IF typeof(d) # "object"
    THEN SetResult(d, OP, "throw", "TypeError: safeSet error: 'data' is not an 'object'.")
    ELSE IF typeof(accessor) # "string"
    THEN SetResult(d, OP, "throw", "TypeError: safeSet error: 'accessor' is not a 'string'.")
    ELSE safeSetWalk(d, split(accessor.s), value, operation, createMissing, OP)

---------------------------------------------------------------------------
(* safeSetAll *)

(* the outcome of safeSetAll: whether it returned or threw, the object *)
(* data refers to and Object.prototype after the call                  *)
SetAllResult(st, node, OP, err) == [st |-> st, node |-> node, op |-> OP, err |-> err]

RECURSIVE safeSetAllLoop(_, _, _, _, _, _)

(* the loop of functions.ts:504-509 from the i-th key of accessorValues on; *)
(* the value safeSet returns is not looked at, what it throws is not caught *)
safeSetAllLoop(d, accessorValues, i, operation, createMissing, OP) ==
    IF i > Len(accessorValues.keys) THEN SetAllResult("return", d, OP, ErrNone)
    ELSE LET after(r) ==
                 IF r.ret = "throw" THEN SetAllResult("throw", r.node, r.op, r.err)
                 ELSE safeSetAllLoop(r.node, accessorValues, i + 1, operation, createMissing, r.op)
         IN  after(safeSet(d, Str(accessorValues.keys[i]), accessorValues.vals[i],
                           operation, createMissing, OP))

(* functions.ts:495-510 *)
safeSetAll(d, accessorValues, operation, createMissing, OP) ==
    IF typeof(d) # "object"
    THEN SetAllResult("throw", d, OP, "TypeError: safeSetAll error: 'data' is not an 'object'.")
    ELSE IF typeof(accessorValues) # "object"
    THEN SetAllResult("throw", d, OP, "TypeError: safeSetAll error: 'accessorValues' is not an 'object'.")
    ELSE IF accessorValues.t = "null"
    THEN SetAllResult("throw", d, OP, "TypeError: Cannot convert undefined or null to object")
    ELSE safeSetAllLoop(d, accessorValues, 1, operation, createMissing, OP)

---------------------------------------------------------------------------
(* deepMerge *)

(* Object.prototype.toString.call(v) === '[object Object]' *)
TagIsObject(v) == v.t = "object"

(* v?.constructor === Object *)
ConstructorIsObject(v, OP) ==
    v.t \notin {"undefined", "null"} /\ Get(v, CONSTRUCTOR, OP) = Fn(1)

(* prop.startsWith('-=') and prop.slice(2) *)
StartsWithDelete(prop) == Len(prop) >= 2 /\ prop[1] = "-" /\ prop[2] = "="

Slice2(prop) == SubSeq(prop, 3, Len(prop))

(* delete v[k] *)
RemoveOwn(v, k) ==
    IF ~HasOwn(v, k) THEN v
    ELSE LET i == OwnIndex(v, k)
             drop(seq) == SubSeq(seq, 1, i - 1) \o SubSeq(seq, i + 1, Len(seq))
         IN  [v EXCEPT !.keys = drop(v.keys), !.vals = drop(v.vals)]

RECURSIVE _deepMerge(_, _, _)
RECURSIVE deepMergeProps(_, _, _, _)

(* the loop assigning obj[prop] whatever target[prop] is, as Object.assign does *)
deepMergeProps_Shallow(target, obj, i, OP) ==
    IF i > Len(obj.keys) THEN target
    ELSE LET prop == obj.keys[i] IN
         IF StartsWithDelete(prop)
         THEN deepMergeProps(RemoveOwn(target, Slice2(prop)), obj, i + 1, OP)
         ELSE deepMergeProps(Put(target, prop, obj.vals[i], OP).node, obj, i + 1, OP)

(* the loop of functions.ts:853-869 over the own keys of obj from the i-th on *)
deepMergeProps(target, obj, i, OP) ==
    IF i > Len(obj.keys) THEN target
    ELSE LET prop == obj.keys[i]
             merged == IF /\ HasOwn(target, prop)
                          /\ ConstructorIsObject(OwnValue(target, prop), OP)
                          /\ ConstructorIsObject(obj.vals[i], OP)
                       THEN _deepMerge(EmptyObject, <<OwnValue(target, prop), obj.vals[i]>>, OP)
                       ELSE obj.vals[i]
         IN  IF StartsWithDelete(prop)
             THEN deepMergeProps(RemoveOwn(target, Slice2(prop)), obj, i + 1, OP)
             ELSE deepMergeProps(Put(target, prop, merged, OP).node, obj, i + 1, OP)

(* functions.ts:846-873 *)
_deepMerge(target, sourceObj, OP) ==
    IF sourceObj = <<>> THEN target
    ELSE _deepMerge(deepMergeProps(target, Head(sourceObj), 1, OP), Tail(sourceObj), OP)

(* deepMerge testing each source just before it merges it *)
deepMerge_ValidatesWhileMerging(t, sourceObj, OP) ==
    LET target == IF t = Undefined THEN EmptyObject ELSE t
        bad == {i \in 1..Len(sourceObj) : ~TagIsObject(sourceObj[i])}
        first == CHOOSE i \in bad : \A j \in bad : i <= j
    IN  IF ~TagIsObject(target)
        THEN [st |-> "throw", node |-> target,
              err |-> "TypeError: deepMerge error: 'target' is not an 'object'.", errIndex |-> -1]
        ELSE IF bad # {}
        THEN [st |-> "throw", node |-> _deepMerge(target, SubSeq(sourceObj, 1, first - 1), OP),
              err |-> "TypeError: deepMerge error: 'sourceObj[cntr]' is not an 'object'.", errIndex |-> first - 1]
        ELSE [st |-> "return", node |-> _deepMerge(target, sourceObj, OP), err |-> ErrNone,
              errIndex |-> -1]

(* functions.ts:47-63; an undefined target is replaced by the default {} *)
deepMerge(t, sourceObj, OP) ==
    LET target == IF t = Undefined THEN EmptyObject ELSE t
        bad == {i \in 1..Len(sourceObj) : ~TagIsObject(sourceObj[i])}
    IN  IF ~TagIsObject(target)
        THEN [st |-> "throw", node |-> target,
              err |-> "TypeError: deepMerge error: 'target' is not an 'object'.", errIndex |-> -1]
        ELSE IF bad # {}
        THEN [st |-> "throw", node |-> target,
              err |-> "TypeError: deepMerge error: 'sourceObj[cntr]' is not an 'object'.",
              errIndex |-> (CHOOSE i \in bad : \A j \in bad : i <= j) - 1]
        ELSE [st |-> "return", node |-> _deepMerge(target, sourceObj, OP), err |-> ErrNone,
              errIndex |-> -1]

---------------------------------------------------------------------------
(* depthTraverse *)

(* the callbacks of the model: 'push' is (data) => output.push(data),   *)
(* which returns the new length of output; 'negate' is (data) => -data; *)
(* any other name is a value that is not a function                     *)
Callbacks == {"push", "negate"}

(* func(v), visited holding the values func has been called with before *)
Callback(func, v, visited) ==
    IF func = "push" THEN Num(Len(visited) + 1)
    ELSE NumNeg(ToNumberV(ToPrimitive(v)))

(* data[key] of the loops of _depthTraverse *)
Element(d, key) == IF HasOwn(d, key) THEN OwnValue(d, key) ELSE Undefined

(* data[key] = val of the loops of _depthTraverse *)
SetElement(d, key, val) == IF HasOwn(d, key) THEN ReplaceOwn(d, key, val) ELSE AddOwn(d, key, val)

(* the keys visited with the loop over an array starting at cntr = 1 *)
TraversedKeys_FromOne(d) ==
    IF isArray(d) THEN [i \in 1..(d.n - 1) |-> DecimalString(i)]
    ELSE IF d.t = "object" THEN d.keys
    ELSE <<>>

(* the keys the loops of functions.ts:895-898 / 902-908 visit: the indices *)
(* below length of an array, the own keys of an object, none of null       *)
TraversedKeys(d) ==
    IF isArray(d) THEN [i \in 1..d.n |-> DecimalString(i - 1)]
    ELSE IF d.t = "object" THEN d.keys
    ELSE <<>>

RECURSIVE _depthTraverse(_, _, _, _)
RECURSIVE depthTraverseLoop(_, _, _, _, _, _)

(* the loops of functions.ts:895-908 and 919-927 from the i-th key on *)
depthTraverseLoop(d, ks, i, func, modify, visited) ==
    IF i > Len(ks) THEN [node |-> d, visited |-> visited]
    ELSE LET r == _depthTraverse(Element(d, ks[i]), func, modify, visited) IN
         depthTraverseLoop(IF modify THEN SetElement(d, ks[i], r.node) ELSE d,
                           ks, i + 1, func, modify, r.visited)

(* _depthTraverse taking the branch of modify = true whatever modify is *)
_depthTraverse_AlwaysModifies(d, func, modify, visited) ==
    IF isArray(d) \/ isObject(d)
    THEN depthTraverseLoop(d, TraversedKeys(d), 1, func, TRUE, visited)
    ELSE [node |-> Callback(func, d, visited), visited |-> Append(visited, d)]

(* functions.ts:889-935: the value returned and the values func was called with *)
_depthTraverse(d, func, modify, visited) ==
    IF modify
    THEN IF isArray(d) \/ isObject(d)
         THEN depthTraverseLoop(d, TraversedKeys(d), 1, func, modify, visited)
         ELSE [node |-> Callback(func, d, visited), visited |-> Append(visited, d)]
    ELSE IF isArray(d) \/ typeof(d) = "object"
         THEN depthTraverseLoop(d, TraversedKeys(d), 1, func, modify, visited)
         ELSE [node |-> d, visited |-> Append(visited, d)]

(* functions.ts:77-86 *)
depthTraverse(d, func, modify) ==
    IF typeof(d) # "object"
    THEN [st |-> "throw", node |-> d, visited |-> <<>>,
          err |-> "TypeError: 'data' is not an 'object'."]
    ELSE IF func \notin Callbacks
    THEN [st |-> "throw", node |-> d, visited |-> <<>>,
          err |-> "TypeError: 'func' is not a 'function'."]
    ELSE LET r == _depthTraverse(d, func, modify, <<>>) IN
         [st |-> "return", node |-> r.node, visited |-> r.visited, err |-> ErrNone]

---------------------------------------------------------------------------
(* deepFreeze *)

(* the argument skipFreezeKeys: left out, a Set of strings, or a value *)
(* that is not a Set                                                   *)
NoSkipKeys == [kind |-> "undefined", keys |-> {}]

SkipSet(keys) == [kind |-> "Set", keys |-> keys]

(* skipFreezeKeys?.has?.(key) *)
SkipHas(skipFreezeKeys, key) == skipFreezeKeys.kind = "Set" /\ key \in skipFreezeKeys.keys

(* Object.freeze(v): an object, an array or a function becomes frozen, any *)
(* other value is returned as it is                                        *)
Freeze(v) == IF v.t \in {"object", "array", "function"} THEN [v EXCEPT !.fz = TRUE] ELSE v

RECURSIVE _deepFreeze(_, _)
RECURSIVE deepFreezeLoop(_, _, _, _)

(* the loop without the test of skipFreezeKeys *)
deepFreezeLoop_IgnoresSkipKeys(d, ks, i, skipFreezeKeys) ==
    IF i > Len(ks) THEN d
    ELSE LET child == Element(d, ks[i])
             frozen == _deepFreeze(child, skipFreezeKeys)
         IN  deepFreezeLoop(IF HasOwn(d, ks[i]) THEN ReplaceOwn(d, ks[i], frozen) ELSE d,
                            ks, i + 1, skipFreezeKeys)

(* the loops of functions.ts:818 and 822-828 from the i-th key on; the *)
(* elements of an array are frozen whatever skipFreezeKeys holds       *)
deepFreezeLoop(d, ks, i, skipFreezeKeys) ==
    IF i > Len(ks) THEN d
    ELSE IF ~isArray(d) /\ SkipHas(skipFreezeKeys, ks[i])
    THEN deepFreezeLoop(d, ks, i + 1, skipFreezeKeys)
    ELSE LET child == Element(d, ks[i])
             frozen == _deepFreeze(child, skipFreezeKeys)
         IN  deepFreezeLoop(IF HasOwn(d, ks[i]) THEN ReplaceOwn(d, ks[i], frozen) ELSE d,
                            ks, i + 1, skipFreezeKeys)

(* functions.ts:814-832 *)
_deepFreeze(d, skipFreezeKeys) ==
    IF isArray(d) \/ isObject(d)
    THEN Freeze(deepFreezeLoop(d, TraversedKeys(d), 1, skipFreezeKeys))
    ELSE Freeze(d)

(* functions.ts:22-34 *)
deepFreeze(d, skipFreezeKeys) ==
    IF typeof(d) # "object"
    THEN [st |-> "throw", node |-> d, err |-> "TypeError: 'data' is not an 'object'."]
    ELSE IF skipFreezeKeys.kind = "other"
    THEN [st |-> "throw", node |-> d, err |-> "TypeError: 'skipFreezeKeys' is not a 'Set'."]
    ELSE [st |-> "return", node |-> _deepFreeze(d, skipFreezeKeys), err |-> ErrNone]

---------------------------------------------------------------------------
(* validate *)

(* a validation entry; type is "none" when the entry has no type, required *)
(* and error are "unset" when the entry does not have the key              *)
ValidationEntry(test, type, expected, required, error) ==
    [test |-> test, type |-> type, expected |-> expected, required |-> required,
     error |-> error]

(* the values of the key expected: none, a Set, an array or a function *)
NoExpected == [kind |-> "none", items |-> {}, func |-> "none"]

ExpectedSet(items) == [kind |-> "Set", items |-> items, func |-> "none"]

ExpectedArray(items) == [kind |-> "Array", items |-> items, func |-> "none"]

ExpectedFunction(func) == [kind |-> "function", items |-> {}, func |-> func]

(* Object.assign({ required: true, error: true }, entry) *)
WithDefaults(entry) ==
    [entry EXCEPT !.required = IF entry.required = "unset" THEN "true" ELSE entry.required,
                  !.error = IF entry.error = "unset" THEN "true" ELSE entry.error]

(* the functions of the model given as expected: (v) => v === 1,          *)
(* (v) => typeof v === 'number', and one that throws; the value is what   *)
(* the function returns, or "throw"                                       *)
CallExpected(func, v) ==
    CASE func = "isOne" -> IF v = Num(1) THEN "true" ELSE "false"
      [] func = "isNumber" -> IF typeof(v) = "number" THEN "true" ELSE "false"
      [] OTHER -> "throw"

(* the outcome of a validation: true, false, an error that               *)
(* _validateError made, or an error thrown by the engine                 *)
Valid == [st |-> "return", b |-> TRUE, clazz |-> "none", validateError |-> FALSE]

(* functions.ts:986-991 *)
_validateError(clazz) == [st |-> "throw", b |-> FALSE, clazz |-> clazz, validateError |-> TRUE]

EngineError == [st |-> "throw", b |-> FALSE, clazz |-> "TypeError", validateError |-> FALSE]

(* if (valEntry.error) { throw _validateError(...) } else { return false; } *)
Fail(valEntry, clazz) == IF valEntry.error = "true" THEN _validateError(clazz)
    ELSE [st |-> "return", b |-> FALSE, clazz |-> "none", validateError |-> FALSE]

(* v fails the test against expected: it is not in the array or Set, or *)
(* the function returns a falsy value or throws                         *)
FailsExpected(expected, v) ==
    CASE expected.kind \in {"Set", "Array"} -> v \notin expected.items
      [] expected.kind = "function" -> CallExpected(expected.func, v) # "true"
      [] OTHER -> FALSE

(* functions.ts:572-689 *)
validateArray(d, accessor, entry, OP) ==
    LET valEntry == WithDefaults(entry)
        r == safeAccess(d, accessor, Undefined, OP)
        dataArray == r.v
        elems == [cntr \in 1..dataArray.n |-> Element(dataArray, DecimalString(cntr - 1))]
    IN  IF r.st = "throw" THEN EngineError
        ELSE IF valEntry.required # "true" /\ typeof(dataArray) = "undefined" THEN Valid
        ELSE IF ~isArray(dataArray) THEN Fail(valEntry, "TypeError")
        ELSE IF valEntry.type # "none"
                /\ \E cntr \in 1..Len(elems) : typeof(elems[cntr]) # valEntry.type
        THEN Fail(valEntry, "TypeError")
        ELSE IF \E cntr \in 1..Len(elems) : FailsExpected(valEntry.expected, elems[cntr])
        THEN Fail(valEntry, "Error")
        ELSE Valid

(* functions.ts:704-766 *)
validateEntry(d, accessor, entry, OP) ==
    LET valEntry == WithDefaults(entry)
        r == safeAccess(d, accessor, Undefined, OP)
        dataEntry == r.v
    IN  IF r.st = "throw" THEN EngineError
        ELSE IF valEntry.required # "true" /\ typeof(dataEntry) = "undefined" THEN Valid
        ELSE IF valEntry.type # "none" /\ typeof(dataEntry) # valEntry.type
        THEN Fail(valEntry, "TypeError")
        ELSE IF FailsExpected(valEntry.expected, dataEntry) THEN Fail(valEntry, "Error")
        ELSE Valid

(* functions.ts:781-797 *)
validateEntryOrArray(d, accessor, entry, OP) ==
    LET r == safeAccess(d, accessor, Undefined, OP) IN
    IF r.st = "throw" THEN EngineError
    ELSE IF isArray(r.v) THEN validateArray(d, accessor, entry, OP)
    ELSE validateEntry(d, accessor, entry, OP)

(* the outcome of validate: what it returns is true, false or undefined *)
ValidateResult(st, ret, clazz, validateError) ==
    [st |-> st, ret |-> ret, clazz |-> clazz, validateError |-> validateError]

RECURSIVE validateLoop(_, _, _, _, _)


(* the loop of functions.ts:534-554 from the i-th key of validationData on, *)
(* result holding what the entries before have left in it                   *)
validateLoop(d, validationData, i, result, OP) ==
    IF i > Len(validationData) THEN ValidateResult("return", result, "none", FALSE)
    ELSE LET key == Str(validationData[i][1])
             entry == validationData[i][2]
             after(r) ==
                 IF r.st = "skip" THEN validateLoop(d, validationData, i + 1, result, OP)
                 ELSE IF r.st = "throw"
                 THEN ValidateResult("throw", Undefined, r.clazz, r.validateError)
                 ELSE validateLoop(d, validationData, i + 1, Bool(r.b), OP)
         IN  after(CASE entry.test = "array" -> validateArray(d, key, entry, OP)
                     [] entry.test = "entry" -> validateEntry(d, key, entry, OP)
                     [] entry.test = "entry|array" -> validateEntryOrArray(d, key, entry, OP)
                     [] OTHER -> [st |-> "skip"])

(* the argument validationData: an object, given by the sequence of its *)
(* keys with their entries, or a value that is not an object            *)
ValidationObject(entries) == [kind |-> "object", entries |-> entries]

(* functions.ts:523-557 *)
validate(d, validationData, OP) ==
    IF typeof(d) # "object" THEN ValidateResult("throw", Undefined, "TypeError", FALSE)
    ELSE IF validationData.kind # "object"
    THEN ValidateResult("throw", Undefined, "TypeError", FALSE)
    ELSE validateLoop(d, validationData.entries, 1, Undefined, OP)

---------------------------------------------------------------------------
(* The inputs *)

(* the longest accessor, in segments *)
MaxSegments == 2

A == <<"a">>

B == <<"b">>

AB == <<"a", ".", "b">>

XY == <<"x", "y">>

Segments == {A, B, ARR, <<"0">>, <<"1">>, <<"-", "1">>, BOGUS, <<>>, PROTO}

RECURSIVE Paths(_)
Paths(len) ==
    IF len = 1 THEN Segments
    ELSE Paths(len - 1) \cup {JoinKey(p, seg) : p \in Paths(len - 1), seg \in Segments}

(* accessors of the examples of the specification and of the tests *)
ExampleAccessors ==
    {Str(JoinKey(JoinKey(A, B), <<"c">>)), Str(JoinKey(JoinKey(ARR, <<"1">>), BOGUS)),
     Str(JoinKey(JoinKey(ARR, <<"1">>), <<"0">>))}

(* accessors with a segment that names a property of Object.prototype *)
InheritedAccessors ==
    {Str(JoinKey(JoinKey(A, CONSTRUCTOR), B)), Str(JoinKey(CONSTRUCTOR, B))}

(* accessor strings of up to MaxSegments segments *)
Accessors == {Str(p) : p \in Paths(MaxSegments)} \cup ExampleAccessors \cup InheritedAccessors

(* values passed where a string accessor is expected *)
BadAccessors == {Null, Undefined, Num(1), Bool(FALSE)}

SetValues == {Undefined, Null, Num(0), Num(5), Str(<<>>), Bool(FALSE), Obj(<<B>>, <<Num(1)>>)}

Defaults == {Undefined, Str(<<"f", "a", "l", "l", "b", "a", "c", "k">>)}

Operations == {"add", "div", "mult", "set-undefined", "sub"}

(* an operation name that the switch of functions.ts:442-467 has no case for *)
UnknownOperations == {"unknown"}

(* accessors and operands of the calls with an operation other than 'set' *)
OperationAccessors ==
    {Str(A), Str(B), Str(<<"0">>), Str(<<"1">>), Str(JoinKey(A, B)), Str(JoinKey(ARR, <<"0">>)),
     Str(JoinKey(ARR, <<"1">>)), Str(JoinKey(ARR, BOGUS)),
     Str(JoinKey(JoinKey(ARR, <<"0">>), A)), Str(JoinKey(JoinKey(ARR, <<"1">>), <<"0">>))}

OperationValues == {Num(2), Num(-1), Str(<<"x">>), Undefined}

(* the most sources of a call of deepMerge *)
MaxSources == 2

DeleteKey(k) == <<"-", "=">> \o k

(* arguments passed to deepMerge as sources *)
MergeSources ==
    { Obj(<<B>>, <<Num(2)>>),
      Obj(<<A>>, <<Obj(<<<<"c">>>>, <<Num(3)>>)>>),
      Obj(<<A>>, <<Num(5)>>),
      Obj(<<A>>, <<Arr(<<Num(9)>>)>>),
      Obj(<<DeleteKey(A)>>, <<Null>>),
      Obj(<<A>>, <<Obj(<<DeleteKey(B)>>, <<Null>>)>>),
      Str(XY),
      Arr(<<Num(1), Num(2)>>) }

SourceLists == UNION {[1..k -> MergeSources] : k \in 0..MaxSources}

(* the most entries of the accessorValues of a call of safeSetAll *)
MaxEntries == 2

(* the object literal { [pairs[1][1]]: pairs[1][2], ... } *)
RECURSIVE ObjectOf(_)
ObjectOf(pairs) ==
    IF pairs = <<>> THEN EmptyObject
    ELSE LET rest == ObjectOf(SubSeq(pairs, 1, Len(pairs) - 1))
             last == pairs[Len(pairs)]
         IN  IF HasOwn(rest, last[1]) THEN ReplaceOwn(rest, last[1], last[2])
             ELSE AddOwn(rest, last[1], last[2])

(* arguments passed to safeSetAll as accessorValues *)
AccessorValues ==
    {ObjectOf(pairs) : pairs \in UNION {
        [1..k -> {A, JoinKey(A, B), JoinKey(B, A), JoinKey(ARR, BOGUS), PROTO}
                    \X {Num(5), Obj(<<B>>, <<Num(1)>>)}] : k \in 0..MaxEntries}}
    \cup {Null, Bool(FALSE), Arr(<<Num(5)>>)}

(* arguments passed to deepFreeze as skipFreezeKeys *)
SkipFreezeKeys ==
    {NoSkipKeys, [kind |-> "other", keys |-> {}], SkipSet({}), SkipSet({A}), SkipSet({ARR}),
     SkipSet({A, <<"0">>}), SkipSet({<<"d">>, <<"1">>})}

(* the most entries of the validationData of a call of validate *)
MaxValidationEntries == 2

(* entries passed to validateArray, validateEntry and validateEntryOrArray *)
ValidationEntries ==
    {ValidationEntry("none", type, expected, required, error) :
        type \in {"none", "number", "string"},
        expected \in {NoExpected, ExpectedSet({Num(1), Num(2)}), ExpectedArray({Str(XY)}),
                      ExpectedFunction("isOne"), ExpectedFunction("isNumber"),
                      ExpectedFunction("throws")},
        required \in {"unset", "false"}, error \in {"unset", "true", "false"}}

(* entries of the validationData passed to validate *)
TestedEntries ==
    {ValidationEntry(test, type, NoExpected, "unset", error) :
        test \in {"entry", "array", "entry|array"}, type \in {"none", "number"},
        error \in {"unset", "false"}}
    \cup {ValidationEntry("other", "number", NoExpected, "unset", "false"),
          ValidationEntry("entry", "none", ExpectedFunction("isOne"), "false", "false")}

(* arguments passed to validate as validationData, each key once *)
ValidationData ==
    {ValidationObject(vd) :
        vd \in {s \in UNION {[1..k -> {A, B, ARR} \X TestedEntries] :
                                k \in 0..MaxValidationEntries} :
                   \A i, j \in 1..Len(s) : s[i][1] = s[j][1] => i = j}}
    \cup {[kind |-> "other", entries |-> <<>>]}

(* the tree {a:1, b:{c:2}, d:[10,20]} *)
EnumerationExample ==
    Obj(<<A, B, <<"d">>>>,
        <<Num(1), Obj(<<<<"c">>>>, <<Num(2)>>), Arr(<<Num(10), Num(20)>>)>>)

ObjectRoots ==
    { EmptyObject,
      EnumerationExample,
      Obj(<<A>>, <<Num(1)>>),
      Obj(<<A, B>>, <<Num(1), Num(2)>>),
      Obj(<<A>>, <<Obj(<<B>>, <<Null>>)>>),
      Obj(<<ARR>>, <<Arr(<<Num(1), Num(2)>>)>>),
      Obj(<<A, ARR>>, <<Obj(<<B>>, <<Num(1)>>), Arr(<<Obj(<<A>>, <<Num(1)>>), Arr(<<Num(0)>>)>>)>>),
      Obj(<<A>>, <<Undefined>>),
      Obj(<<A>>, <<Null>>),
      Obj(<<A, B>>, <<Num(0), Str(<<>>)>>),
      Obj(<<A, B>>, <<Bool(FALSE), Str(XY)>>),
      Obj(<<A, B>>, <<Fn(3), EmptyObject>>),
      Obj(<<AB, A>>, <<Num(1), Obj(<<B>>, <<Num(2)>>)>>),
      Arr(<<Num(1), Num(2)>>) }

Roots == ObjectRoots \cup {Null, Undefined, Num(5), Str(XY), Bool(FALSE)}

---------------------------------------------------------------------------
(* The calls *)

NoCall ==
    [fn |-> "none", before |-> Undefined, protoBefore |-> PristineObjectProto,
     accessor |-> Undefined, value |-> Undefined, operation |-> "none",
     createMissing |-> FALSE, st |-> "none", ret |-> Undefined, list |-> <<>>,
     err |-> ErrNone, firstSt |-> "none", firstRet |-> Undefined,
     func |-> "none", modify |-> FALSE, visited |-> <<>>,
     sources |-> <<>>, errIndex |-> -1, entries |-> Undefined,
     skip |-> NoSkipKeys, entry |-> ValidationEntry("none", "none", NoExpected, "unset", "unset"),
     validationData |-> ValidationObject(<<>>), validateError |-> FALSE]

Init ==
    /\ data \in Roots
    /\ ObjectProto = PristineObjectProto
    /\ call = NoCall
    /\ pc = "ready"

Called(fn) == [NoCall EXCEPT !.fn = fn, !.before = data, !.protoBefore = ObjectProto]

(* safeSet(data, accessor, value, operation, createMissing) *)
DoSafeSet(accessor, value, operation, createMissing) ==
    \E r \in {safeSet(data, accessor, value, operation, createMissing, ObjectProto)} :
        /\ data' = r.node
        /\ ObjectProto' = r.op
        /\ call' = [Called("safeSet") EXCEPT !.accessor = accessor, !.value = value,
                        !.operation = operation, !.createMissing = createMissing,
                        !.st = IF r.ret = "throw" THEN "throw" ELSE "return",
                        !.ret = IF r.ret = "throw" THEN Undefined ELSE Bool(r.ret = "true"),
                        !.err = r.err]
        /\ pc' = "done"

SafeSet ==
    /\ pc = "ready"
    /\ \E accessor \in Accessors \cup BadAccessors, value \in SetValues,
          createMissing \in BOOLEAN :
           DoSafeSet(accessor, value, "set", createMissing)

SafeSetOperation ==
    /\ pc = "ready"
    /\ \E accessor \in OperationAccessors, value \in OperationValues,
          operation \in Operations \cup UnknownOperations, createMissing \in BOOLEAN :
           DoSafeSet(accessor, value, operation, createMissing)

(* the same safeSet(data, accessor, value, 'set', createMissing) a second *)
(* time, on the tree the first call left                                 *)
SafeSetAgain ==
    /\ pc = "done"
    /\ call.fn = "safeSet"
    /\ call.operation = "set"
    /\ \E r \in {safeSet(data, call.accessor, call.value, "set", call.createMissing,
                          ObjectProto)} :
           /\ data' = r.node
           /\ ObjectProto' = r.op
           /\ call' = [call EXCEPT !.fn = "safeSetAgain", !.before = data,
                           !.protoBefore = ObjectProto,
                           !.firstSt = call.st, !.firstRet = call.ret,
                           !.st = IF r.ret = "throw" THEN "throw" ELSE "return",
                           !.ret = IF r.ret = "throw" THEN Undefined ELSE Bool(r.ret = "true"),
                           !.err = r.err]
           /\ pc' = "again"

DoSafeAccess(fn, r, accessor, defaultValue) ==
    /\ call' = [Called(fn) EXCEPT !.accessor = accessor, !.value = defaultValue,
                    !.st = r.st, !.ret = r.v, !.err = r.err]
    /\ pc' = "done"
    /\ UNCHANGED <<data, ObjectProto>>

SafeAccess ==
    /\ pc = "ready"
    /\ \E accessor \in Accessors \cup BadAccessors, defaultValue \in Defaults :
           DoSafeAccess("safeAccess", safeAccess(data, accessor, defaultValue, ObjectProto),
                        accessor, defaultValue)

SafeAccess2 ==
    /\ pc = "ready"
    /\ \E accessor \in Accessors \cup BadAccessors, defaultValue \in Defaults :
           DoSafeAccess("safeAccess2", safeAccess2(data, accessor, defaultValue, ObjectProto),
                        accessor, defaultValue)

DoSafeEqual(fn, r, target) ==
    /\ call' = [Called(fn) EXCEPT !.value = target, !.st = r.st,
                    !.ret = IF r.st = "throw" THEN Undefined ELSE Bool(r.b), !.err = r.err]
    /\ pc' = "done"
    /\ UNCHANGED <<data, ObjectProto>>

SafeEqual ==
    /\ pc = "ready"
    /\ \E target \in Roots : DoSafeEqual("safeEqual", safeEqual(data, target, ObjectProto), target)

SafeEqual2 ==
    /\ pc = "ready"
    /\ \E target \in Roots : DoSafeEqual("safeEqual2", safeEqual2(data, target, ObjectProto), target)

GetAccessorList ==
    /\ pc = "ready"
    /\ \E r \in {getAccessorList(data)} :
           /\ call' = [Called("getAccessorList") EXCEPT !.st = r.st, !.list = r.list,
                                                        !.err = r.err]
           /\ pc' = "done"
           /\ UNCHANGED <<data, ObjectProto>>

(* depthTraverse(data, func, modify); the value returned is the root, or *)
(* what func returned for a root that is a leaf                          *)
DepthTraverse ==
    /\ pc = "ready"
    /\ \E func \in Callbacks \cup {"notAFunction"}, modify \in BOOLEAN :
           \E r \in {depthTraverse(data, func, modify)} :
               /\ data' = IF data.t \in {"object", "array"} THEN r.node ELSE data
               /\ call' = [Called("depthTraverse") EXCEPT !.func = func, !.modify = modify,
                               !.st = r.st,
                               !.ret = IF r.st = "throw" THEN Undefined ELSE r.node,
                               !.visited = r.visited, !.err = r.err]
               /\ pc' = "done"
               /\ UNCHANGED ObjectProto

(* deepMerge(data, ...sourceObj); the target is data, or a new object when *)
(* data is undefined                                                       *)
DeepMerge ==
    /\ pc = "ready"
    /\ \E sourceObj \in SourceLists :
           \E r \in {deepMerge(data, sourceObj, ObjectProto)} :
               /\ data' = IF data = Undefined THEN data ELSE r.node
               /\ call' = [Called("deepMerge") EXCEPT !.sources = sourceObj, !.st = r.st,
                               !.ret = IF r.st = "throw" THEN Undefined ELSE r.node,
                               !.err = r.err, !.errIndex = r.errIndex]
               /\ pc' = "done"
               /\ UNCHANGED ObjectProto

(* safeSetAll(data, accessorValues, 'set', createMissing) *)
SafeSetAll ==
    /\ pc = "ready"
    /\ \E accessorValues \in AccessorValues, createMissing \in BOOLEAN :
           \E r \in {safeSetAll(data, accessorValues, "set", createMissing, ObjectProto)} :
               /\ data' = r.node
               /\ ObjectProto' = r.op
               /\ call' = [Called("safeSetAll") EXCEPT !.entries = accessorValues,
                               !.operation = "set", !.createMissing = createMissing,
                               !.st = r.st, !.err = r.err]
               /\ pc' = "done"

(* deepFreeze(data, skipFreezeKeys); the value returned is data *)
DeepFreeze ==
    /\ pc = "ready"
    /\ \E skipFreezeKeys \in SkipFreezeKeys :
           \E r \in {deepFreeze(data, skipFreezeKeys)} :
               /\ data' = r.node
               /\ call' = [Called("deepFreeze") EXCEPT !.skip = skipFreezeKeys, !.st = r.st,
                               !.ret = IF r.st = "throw" THEN Undefined ELSE r.node,
                               !.err = r.err]
               /\ pc' = "done"
               /\ UNCHANGED ObjectProto

(* validateArray, validateEntry or validateEntryOrArray(data, accessor, entry) *)
ValidateOne ==
    /\ pc = "ready"
    /\ \E fn \in {"validateArray", "validateEntry", "validateEntryOrArray"},
          accessor \in {Str(A), Str(B), Str(ARR), Str(JoinKey(ARR, <<"0">>))}, entry \in ValidationEntries :
           \E r \in {CASE fn = "validateArray" -> validateArray(data, accessor, entry, ObjectProto)
                       [] fn = "validateEntry" -> validateEntry(data, accessor, entry, ObjectProto)
                       [] OTHER -> validateEntryOrArray(data, accessor, entry, ObjectProto)} :
               /\ call' = [Called(fn) EXCEPT !.accessor = accessor, !.entry = entry,
                               !.st = r.st,
                               !.ret = IF r.st = "throw" THEN Undefined ELSE Bool(r.b),
                               !.err = r.clazz, !.validateError = r.validateError]
               /\ pc' = "done"
               /\ UNCHANGED <<data, ObjectProto>>

(* validate(data, validationData) *)
Validate ==
    /\ pc = "ready"
    /\ \E validationData \in ValidationData :
           \E r \in {validate(data, validationData, ObjectProto)} :
               /\ call' = [Called("validate") EXCEPT !.validationData = validationData,
                               !.st = r.st, !.ret = r.ret, !.err = r.clazz,
                               !.validateError = r.validateError]
               /\ pc' = "done"
               /\ UNCHANGED <<data, ObjectProto>>

Next ==
    \/ SafeSet
    \/ SafeSetOperation
    \/ SafeSetAgain
    \/ SafeAccess
    \/ SafeAccess2
    \/ SafeEqual
    \/ SafeEqual2
    \/ GetAccessorList
    \/ DepthTraverse
    \/ DeepMerge
    \/ SafeSetAll
    \/ DeepFreeze
    \/ ValidateOne
    \/ Validate

Spec == Init /\ [][Next]_vars

TypeOK ==
    /\ pc \in {"ready", "done", "again"}
    /\ call.st \in {"none", "return", "throw"}

---------------------------------------------------------------------------
(* Indexing by hand, for the statements below *)

(* d[segs[1]][segs[2]]...; ok is FALSE when a step indexes null or undefined *)
RECURSIVE IndexPath(_, _, _)
IndexPath(d, segs, OP) ==
    IF segs = <<>> THEN [ok |-> TRUE, v |-> d]
    ELSE IF d.t \in {"null", "undefined"} THEN [ok |-> FALSE, v |-> Undefined]
    ELSE IndexPath(Get(d, Head(segs), OP), Tail(segs), OP)

(* the own value at a sequence of own keys *)
RECURSIVE IndexKeys(_, _)
IndexKeys(d, ks) ==
    IF ks = <<>> THEN [ok |-> TRUE, v |-> d]
    ELSE IF d.t \notin {"object", "array"} \/ ~HasOwn(d, Head(ks))
    THEN [ok |-> FALSE, v |-> Undefined]
    ELSE IndexKeys(OwnValue(d, Head(ks)), Tail(ks))

(* the sequences of own keys that lead to a value that is not typeof 'object' *)
RECURSIVE KeyPaths(_)
KeyPaths(d) ==
    LET RECURSIVE from(_)
        from(i) ==
            IF i > Len(d.keys) THEN <<>>
            ELSE LET sub == KeyPaths(d.vals[i])
                     here == IF typeof(d.vals[i]) = "object"
                             THEN [j \in 1..Len(sub) |-> <<d.keys[i]>> \o sub[j]]
                             ELSE <<<<d.keys[i]>>>>
                 IN  here \o from(i + 1)
    IN  IF d.t \in {"object", "array"} THEN from(1) ELSE <<>>

RECURSIVE Dotted(_)
Dotted(ks) == IF Len(ks) = 1 THEN ks[1] ELSE ks[1] \o <<DOT>> \o Dotted(Tail(ks))

(* no key of the tree contains a '.' *)
RECURSIVE DotFree(_)
DotFree(d) ==
    \A i \in 1..Len(d.keys) :
        /\ \A j \in 1..Len(d.keys[i]) : d.keys[i][j] # DOT
        /\ DotFree(d.vals[i])

CallSegments == split(call.accessor.s)

IsContainer(v) == v.t \in {"object", "array"}

---------------------------------------------------------------------------
(* Write-then-read *)

SetReturnedTrue ==
    call.fn = "safeSet" /\ call.operation = "set" /\ call.ret = Bool(TRUE)

---------------------------------------------------------------------------
(* Round trip *)

(* C2: for a tree whose keys contain no '.', every path that              *)
(* getAccessorList produces is the dotted form of a sequence of own keys, *)
(* and safeAccess of the path returns the value found by indexing the     *)
(* tree key by key.                                                       *)
C2_RoundTrip ==
    (call.fn = "getAccessorList" /\ call.st = "return" /\ DotFree(data)) =>
        LET kps == KeyPaths(data) IN
        /\ Len(call.list) = Len(kps)
        /\ \A i \in 1..Len(kps) :
              /\ call.list[i] = Dotted(kps[i])
              /\ IndexKeys(data, kps[i]).ok
              /\ safeAccess(data, Str(call.list[i]), Undefined, ObjectProto)
                   = Return(IndexKeys(data, kps[i]).v)

(* the enumeration of a '.'-free tree has produced a path through an array *)
(* to a leaf that is falsy                                                 *)
C2_Witness ==
    /\ call.fn = "getAccessorList"
    /\ DotFree(data)
    /\ \E i \in 1..Len(call.list) :
          /\ Len(split(call.list[i])) = 3
          /\ split(call.list[i])[1] = ARR
          /\ safeAccess(data, Str(call.list[i]), Undefined, ObjectProto).v = Num(0)

---------------------------------------------------------------------------
(* Array index guard *)

(* the segment does not convert to a non-negative integer *)
NotAnIndex(seg) == ~(isInteger(ToNumber(seg)) /\ ToNumber(seg).n >= 0)

(* safeSet on d reaches an array at which the next segment is not an index: *)
(* the walk passes through existing non-null objects only                   *)
RECURSIVE ReachesArrayAtBadIndex(_, _, _)
ReachesArrayAtBadIndex(d, segs, OP) ==
    /\ segs # <<>>
    /\ IsContainer(d)
    /\ \/ isArray(d) /\ NotAnIndex(Head(segs))
       \/ /\ isArray(d) => ~NotAnIndex(Head(segs))
          /\ ReachesArrayAtBadIndex(Get(d, Head(segs), OP), Tail(segs), OP)

---------------------------------------------------------------------------
(* Default substitution *)

(* indexing d by hand along segs meets null or undefined at some segment *)
ResolvesNullish(d, segs, OP) ==
    \E i \in 1..Len(segs) :
        LET r == IndexPath(d, SubSeq(segs, 1, i), OP) IN
        r.ok /\ r.v.t \in {"null", "undefined"}

(* C6: for a root object and a string accessor, safeAccess returns the    *)
(* default exactly when some segment along the path resolves to null or   *)
(* undefined; otherwise it returns the resolved value verbatim, also when *)
(* that value is false, 0 or the empty string.                            *)
C6_DefaultOnlyForNullish ==
    ( /\ call.fn \in {"safeAccess", "safeAccess2"}
      /\ IsContainer(call.before)
      /\ typeof(call.accessor) = "string" )
    => /\ call.st = "return"
       /\ call.ret = IF ResolvesNullish(call.before, CallSegments, ObjectProto)
                     THEN call.value
                     ELSE IndexPath(call.before, CallSegments, ObjectProto).v

(* safeAccess with a default has returned the empty string it resolved *)
C6_Witness ==
    /\ call.fn = "safeAccess"
    /\ call.value # Undefined
    /\ call.accessor = Str(B)
    /\ call.ret = Str(<<>>)

---------------------------------------------------------------------------
(* Creation of missing intermediates *)

(* the key is neither an own nor an inherited property of d *)
Absent(d, key, OP) == ~HasOwn(d, key) /\ Get(d, key, OP) = Undefined

(* C3: for a mapping and a path of two or more segments whose first      *)
(* segment is absent, safeSet with createMissing = false returns false   *)
(* and leaves the tree unchanged; with createMissing = true it returns   *)
(* true, and afterwards every intermediate segment holds a mapping and   *)
(* the terminal slot holds the value.                                    *)
C3_MissingCreationToggle ==
    ( /\ call.fn = "safeSet"
      /\ call.operation = "set"
      /\ call.before.t = "object"
      /\ typeof(call.accessor) = "string"
      /\ Len(CallSegments) >= 2
      /\ Absent(call.before, CallSegments[1], call.protoBefore) )
    => IF call.createMissing
       THEN /\ call.ret = Bool(TRUE)
            /\ \A i \in 1..(Len(CallSegments) - 1) :
                  IndexPath(data, SubSeq(CallSegments, 1, i), ObjectProto).v.t = "object"
            /\ IndexPath(data, CallSegments, ObjectProto).v = call.value
       ELSE /\ call.ret = Bool(FALSE)
            /\ data = call.before
            /\ ObjectProto = call.protoBefore

---------------------------------------------------------------------------
(* safeAccess on roots and accessors of the wrong shape *)

(* C5: safeAccess never raises; for every root and every accessor it     *)
(* returns the resolved value or the default, and a null root or an      *)
(* accessor that is not a string returns the default.                    *)
C5_SafeAccessNeverRaises ==
    call.fn \in {"safeAccess", "safeAccess2"} =>
        /\ call.st = "return"
        /\ (call.before = Null \/ typeof(call.accessor) # "string") => call.ret = call.value

---------------------------------------------------------------------------
(* safeEqual *)

(* the sequences of own keys that lead to a leaf: a value that is not a *)
(* mapping or an array, null included                                   *)
RECURSIVE LeafPaths(_)
LeafPaths(d) ==
    LET RECURSIVE from(_)
        from(i) ==
            IF i > Len(d.keys) THEN {}
            ELSE (IF IsContainer(d.vals[i])
                  THEN {<<d.keys[i]>> \o kp : kp \in LeafPaths(d.vals[i])}
                  ELSE {<<d.keys[i]>>}) \cup from(i + 1)
    IN  IF IsContainer(d) THEN from(1) ELSE {}

(* t2 is t1 with own keys added *)
AddsKeys(t2, t1) ==
    /\ t2.t = t1.t
    /\ \A i \in 1..Len(t1.keys) : HasOwn(t2, t1.keys[i]) /\ OwnValue(t2, t1.keys[i]) = t1.vals[i]

SafeEqualOfObjects ==
    /\ call.fn \in {"safeEqual", "safeEqual2"}
    /\ IsContainer(call.before)
    /\ IsContainer(call.value)

(* C7: safeEqual is asymmetric. A source leaf that is missing from target *)
(* makes the result false; keys added to target never turn a true result  *)
(* into false; safeEqual({a:1}, {a:1,b:2}) is true and                     *)
(* safeEqual({a:1,b:2}, {a:1}) is false.                                   *)
C7_SafeEqualAsymmetry ==
    SafeEqualOfObjects =>
        /\ (\E kp \in LeafPaths(call.before) : ~IndexKeys(call.value, kp).ok)
              => call.ret = Bool(FALSE)
        /\ call.ret = Bool(TRUE) =>
              \A t2 \in ObjectRoots :
                  AddsKeys(t2, call.value) => safeEqual(call.before, t2, ObjectProto).b
        /\ ( /\ call.before = Obj(<<A>>, <<Num(1)>>)
             /\ call.value = Obj(<<A, B>>, <<Num(1), Num(2)>>) ) => call.ret = Bool(TRUE)
        /\ ( /\ call.before = Obj(<<A, B>>, <<Num(1), Num(2)>>)
             /\ call.value = Obj(<<A>>, <<Num(1)>>) ) => call.ret = Bool(FALSE)

(* C8: safeEqual returns true only if every leaf of source, a leaf being *)
(* a primitive or null, has a strictly equal value at the same key-path  *)
(* in target; a null leaf of source against a value that is not null     *)
(* yields false.                                                         *)
C8_SafeEqualEveryLeaf ==
    (SafeEqualOfObjects /\ call.ret = Bool(TRUE)) =>
        \A kp \in LeafPaths(call.before) :
            StrictEquals(IndexKeys(call.before, kp).v,
                         IndexPath(call.value, kp, ObjectProto).v)

(* C9: safeEqual returns false, without raising, whenever source or     *)
(* target is not a non-null object.                                     *)
C9_SafeEqualNonObjects ==
    ( /\ call.fn \in {"safeEqual", "safeEqual2"}
      /\ ~(IsContainer(call.before) /\ IsContainer(call.value)) )
    => call.st = "return" /\ call.ret = Bool(FALSE)

---------------------------------------------------------------------------
(* Validation of the arguments of safeSet *)

(* C10: whenever the root is not a non-null object or the accessor is    *)
(* not a string, safeSet raises the TypeError of its validation, which   *)
(* names the offending parameter, and no object is changed.              *)
C10_SafeSetValidation ==
    ( /\ call.fn = "safeSet"
      /\ (~IsContainer(call.before) \/ typeof(call.accessor) # "string") )
    => /\ call.st = "throw"
       /\ \/ call.err = "TypeError: safeSet error: 'data' is not an 'object'."
             /\ ~IsContainer(call.before)
          \/ call.err = "TypeError: safeSet error: 'accessor' is not a 'string'."
             /\ typeof(call.accessor) # "string"
       /\ data = call.before
       /\ ObjectProto = call.protoBefore

---------------------------------------------------------------------------
(* Operation names *)

KnownOperations == {"add", "div", "mult", "set", "set-undefined", "sub"}

(* C11: safeSet called on an object root with a string accessor and an *)
(* operation name outside set, add, sub, mult, div, set-undefined      *)
(* raises an error; it does not return.                                *)
C11_UnknownOperationRaises ==
    ( /\ call.fn = "safeSet"
      /\ IsContainer(call.before)
      /\ typeof(call.accessor) = "string"
      /\ call.operation \notin KnownOperations )
    => call.st = "throw"

---------------------------------------------------------------------------
(* createMissing = false and a terminal property that does not exist *)

(* the path names no property of the tree: not through own keys and not *)
(* through inherited ones                                               *)
NoSuchProperty(d, segs, OP) ==
    ~IndexKeys(d, segs).ok /\ IndexPath(d, segs, OP).v = Undefined

(* C12: when createMissing is false and the terminal property of the path *)
(* does not exist in the tree, safeSet returns false and the property is  *)
(* still absent afterwards.                                               *)
C12_NoCreationOfTerminal ==
    ( /\ call.fn = "safeSet"
      /\ call.operation = "set"
      /\ ~call.createMissing
      /\ IsContainer(call.before)
      /\ typeof(call.accessor) = "string"
      /\ NoSuchProperty(call.before, CallSegments, call.protoBefore) )
    => /\ call.ret = Bool(FALSE)
       /\ NoSuchProperty(data, CallSegments, ObjectProto)

---------------------------------------------------------------------------
(* set-undefined *)

SetUndefinedCall ==
    /\ call.fn = "safeSet"
    /\ call.operation = "set-undefined"
    /\ IsContainer(call.before)
    /\ typeof(call.accessor) = "string"

(* what indexing the tree of before the call along the accessor yields *)
SlotBefore == IndexPath(call.before, CallSegments, call.protoBefore)

(* C13: safeSet with operation 'set-undefined' assigns the value only     *)
(* when the terminal slot holds undefined or is absent: a call that       *)
(* changes the tree found undefined at the slot and leaves the value      *)
(* there, and a call that finds any other value at the slot, null, 0,     *)
(* false and the empty string included, leaves the whole tree unchanged.  *)
C13_SetUndefined ==
    SetUndefinedCall =>
        /\ (data # call.before \/ ObjectProto # call.protoBefore) =>
              /\ SlotBefore.v = Undefined
              /\ call.ret = Bool(TRUE)
              /\ IndexPath(data, CallSegments, ObjectProto).v = call.value
        /\ (SlotBefore.ok /\ SlotBefore.v # Undefined) =>
              /\ data = call.before
              /\ ObjectProto = call.protoBefore
        /\ (call.ret = Bool(TRUE) /\ SlotBefore.v = Undefined) =>
              IndexPath(data, CallSegments, ObjectProto).v = call.value

(* set-undefined has found the empty string at the slot and has returned *)
(* true without writing                                                  *)
C13_Witness ==
    /\ SetUndefinedCall
    /\ SlotBefore.v = Str(<<>>)
    /\ call.value = Num(2)
    /\ call.ret = Bool(TRUE)
    /\ data = call.before

(* set-undefined has written into a slot that held undefined *)
C13_WitnessAssigned ==
    /\ SetUndefinedCall
    /\ HasOwn(call.before, A)
    /\ call.accessor = Str(A)
    /\ call.value = Num(2)
    /\ data # call.before

---------------------------------------------------------------------------
(* Arithmetic operations *)

(* every leaf of the tree is an integer *)
IntegerLeaves(d) == \A kp \in LeafPaths(d) : isInteger(IndexKeys(d, kp).v)

(* the accessor of the call is one of the key-paths enumerated from the *)
(* tree of before the call                                              *)
AccessorEnumerated ==
    LET l == getAccessorList(call.before) IN
    /\ l.st = "return"
    /\ \E i \in 1..Len(l.list) : l.list[i] = call.accessor.s

Divides(v, n) == v # 0 /\ n % Abs(v) = 0

Quotient(n, v) == CHOOSE k \in (0 - Abs(n))..Abs(n) : k * v = n

ArithmeticCall ==
    /\ call.fn = "safeSet"
    /\ call.operation \in {"add", "sub", "mult", "div"}
    /\ IsContainer(call.before)
    /\ IntegerLeaves(call.before)
    /\ typeof(call.accessor) = "string"
    /\ AccessorEnumerated
    /\ isInteger(call.value)
    /\ call.operation = "div" => Divides(call.value.n, SlotBefore.v.n)

---------------------------------------------------------------------------
(* Idempotence of set *)

(* C15: applying safeSet(T, p, v) with operation 'set' twice in a row     *)
(* leaves the tree identical to applying it once, and the second call     *)
(* returns the same boolean as the first.                                 *)
C15_SetIdempotent ==
    (call.fn = "safeSetAgain" /\ IsContainer(call.before) /\ call.firstSt = "return") =>
        /\ data = call.before
        /\ call.st = "return"
        /\ call.ret = call.firstRet

---------------------------------------------------------------------------
(* Enumeration order *)

(* C16: enumerating the key-paths of {a:1, b:{c:2}, d:[10,20]} yields   *)
(* exactly the four paths 'a', 'b.c', 'd.0', 'd.1', in that order.      *)
C16_EnumerationOrder ==
    (call.fn = "getAccessorList" /\ call.before = EnumerationExample) =>
        /\ call.st = "return"
        /\ call.list = << <<"a">>, <<"b", ".", "c">>, <<"d", ".", "0">>, <<"d", ".", "1">> >>

(* the tree of the example has been enumerated *)
C16_Witness ==
    /\ call.fn = "getAccessorList"
    /\ data = EnumerationExample
    /\ Len(call.list) = 4

---------------------------------------------------------------------------
(* Read-only operations *)

ReadOnlyCall ==
    \/ call.fn \in {"getAccessorList", "safeAccess", "safeAccess2", "safeEqual", "safeEqual2"}
    \/ call.fn = "depthTraverse" /\ ~call.modify

(* C17: after a call of getAccessorList, safeAccess, safeEqual or        *)
(* depthTraverse with modify = false, whether it returned or raised, the *)
(* input tree and the prototype its objects share are what they were     *)
(* before the call.                                                      *)
C17_ReadOnly ==
    ReadOnlyCall =>
        /\ data = call.before
        /\ ObjectProto = call.protoBefore

(* depthTraverse with modify = false has called a callback that returns *)
(* other values than it is given on four leaves                         *)
C17_Witness ==
    /\ call.fn = "depthTraverse"
    /\ ~call.modify
    /\ call.func = "negate"
    /\ Len(call.visited) = 4
    /\ call.st = "return"
    /\ call.ret = data

---------------------------------------------------------------------------
(* deepMerge: validation *)

(* the target of the call: the default {} when undefined is passed *)
MergeTarget == IF call.before = Undefined THEN EmptyObject ELSE call.before

BadSources == {i \in 1..Len(call.sources) : ~TagIsObject(call.sources[i])}

(* C19: if target or any one of the sources is not an '[object Object]'  *)
(* value, deepMerge raises the TypeError that names the offending        *)
(* argument, a source by its index, and target is left unchanged, also   *)
(* when valid sources precede the invalid one.                           *)
C19_DeepMergeValidates ==
    (call.fn = "deepMerge" /\ (~TagIsObject(MergeTarget) \/ BadSources # {})) =>
        /\ call.st = "throw"
        /\ \/ call.err = "TypeError: deepMerge error: 'target' is not an 'object'."
              /\ ~TagIsObject(MergeTarget)
           \/ call.err = "TypeError: deepMerge error: 'sourceObj[cntr]' is not an 'object'."
              /\ (call.errIndex + 1) \in BadSources
        /\ data = call.before
        /\ ObjectProto = call.protoBefore

(* a valid source that would add the key b precedes a string *)
C19_Witness ==
    /\ call.fn = "deepMerge"
    /\ call.before = Obj(<<A>>, <<Num(1)>>)
    /\ call.sources = <<Obj(<<B>>, <<Num(2)>>), Str(XY)>>
    /\ call.st = "throw"
    /\ call.errIndex = 1

---------------------------------------------------------------------------
(* deepMerge: deletion *)

(* no object anywhere in the tree has a key that starts with '-=' *)
RECURSIVE NoDeleteKeys(_)
NoDeleteKeys(d) ==
    \A i \in 1..Len(d.keys) : ~StartsWithDelete(d.keys[i]) /\ NoDeleteKeys(d.vals[i])

(* the source s names k for deletion and does not define k itself *)
Deletes(s, k) == HasOwn(s, DeleteKey(k)) /\ ~HasOwn(s, k)

MergeKeys == {A, B, <<"c">>}

LastSource == call.sources[Len(call.sources)]

(* C20: a source property '-=k', at the top or nested, removes the key k *)
(* from the corresponding object of the target, and after deepMerge has  *)
(* returned no object anywhere in the target tree has a key that starts  *)
(* with '-='.                                                            *)
C20_DeepMergeDeletes ==
    (call.fn = "deepMerge" /\ call.st = "return" /\ call.sources # <<>>) =>
        /\ \A k \in MergeKeys : Deletes(LastSource, k) => ~HasOwn(call.ret, k)
        /\ \A k1, k \in MergeKeys :
              ( /\ HasOwn(LastSource, k1)
                /\ IsContainer(OwnValue(LastSource, k1))
                /\ Deletes(OwnValue(LastSource, k1), k)
                /\ HasOwn(call.ret, k1)
                /\ IsContainer(OwnValue(call.ret, k1)) )
              => ~HasOwn(OwnValue(call.ret, k1), k)
        /\ NoDeleteKeys(call.ret)

---------------------------------------------------------------------------
(* deepMerge: merge *)

ObjectLiteral(v) == v.t = "object"

(* the keys of the key-wise merge of the object literals t and s: those  *)
(* of s and those of t that s does not name in a '-=' property           *)
KeysOfMerge(t, s) ==
    {k \in {t.keys[i] : i \in 1..Len(t.keys)} \cup {s.keys[i] : i \in 1..Len(s.keys)} :
        /\ ~StartsWithDelete(k)
        /\ HasOwn(s, k) \/ ~HasOwn(s, DeleteKey(k))}

(* r is the recursive key-wise merge of the object literals t and s *)
RECURSIVE IsMergeOf(_, _, _)
IsMergeOf(r, t, s) ==
    /\ ObjectLiteral(r)
    /\ {r.keys[i] : i \in 1..Len(r.keys)} = KeysOfMerge(t, s)
    /\ \A k \in KeysOfMerge(t, s) :
          IF HasOwn(s, k) /\ HasOwn(t, k)
             /\ ObjectLiteral(OwnValue(t, k)) /\ ObjectLiteral(OwnValue(s, k))
          THEN IsMergeOf(OwnValue(r, k), OwnValue(t, k), OwnValue(s, k))
          ELSE OwnValue(r, k) = (IF HasOwn(s, k) THEN OwnValue(s, k) ELSE OwnValue(t, k))

(* the keys that the sources of the call define *)
SourceKeys ==
    {k \in UNION {{call.sources[i].keys[j] : j \in 1..Len(call.sources[i].keys)} :
                     i \in 1..Len(call.sources)} : ~StartsWithDelete(k)}

(* the index of the last source that defines k *)
LastDefining(k) ==
    CHOOSE j \in 1..Len(call.sources) :
        /\ HasOwn(call.sources[j], k)
        /\ \A i \in (j + 1)..Len(call.sources) : ~HasOwn(call.sources[i], k)

(* the target as the sources before the j-th have left it *)
Accumulated(j) == _deepMerge(MergeTarget, SubSeq(call.sources, 1, j - 1), call.protoBefore)

(* the result at k is the merge of the accumulated value and the value of *)
(* the last source that defines k when both are object literals, and the  *)
(* value of that source otherwise                                         *)
MergedAt(k) ==
    LET j == LastDefining(k)
        acc == Accumulated(j)
        val == OwnValue(call.sources[j], k)
    IN  /\ HasOwn(call.ret, k)
        /\ IF HasOwn(acc, k) /\ ObjectLiteral(OwnValue(acc, k)) /\ ObjectLiteral(val)
           THEN IsMergeOf(OwnValue(call.ret, k), OwnValue(acc, k), val)
           ELSE OwnValue(call.ret, k) = val

DeepMergeReturned == call.fn = "deepMerge" /\ call.st = "return"

(* C18, as stated: deepMerge merges in place and returns the object      *)
(* passed as target, and for every key k of the sources that does not    *)
(* start with '-=' the result at k is the recursive merge of the         *)
(* accumulated target value and the source value when both are object    *)
(* literals, and the value of the last source that defines k otherwise.  *)
C18_DeepMergeEveryKey ==
    DeepMergeReturned =>
        /\ call.before # Undefined => call.ret = data
        /\ \A k \in SourceKeys : MergedAt(k)

(* C18, amended: the same for every such key k that no source names in *)
(* a property '-=k'.                                                   *)
C18_DeepMerge ==
    DeepMergeReturned =>
        /\ call.before # Undefined => call.ret = data
        /\ \A k \in SourceKeys :
              (\A i \in 1..Len(call.sources) : ~HasOwn(call.sources[i], DeleteKey(k)))
                  => MergedAt(k)

(* two sources have been merged into an object literal of the target, *)
(* key by key                                                         *)
C18_Witness ==
    /\ DeepMergeReturned
    /\ call.before = Obj(<<A>>, <<Obj(<<B>>, <<Null>>)>>)
    /\ call.sources = <<Obj(<<B>>, <<Num(2)>>), Obj(<<A>>, <<Obj(<<<<"c">>>>, <<Num(3)>>)>>)>>
    /\ data = Obj(<<A, B>>, <<Obj(<<B, <<"c">>>>, <<Null, Num(3)>>), Num(2)>>)

---------------------------------------------------------------------------
(* Enumeration and traversal *)

(* every leaf of the tree is a number, a string, a boolean or null *)
RECURSIVE DefinedLeaves(_)
DefinedLeaves(d) ==
    IF IsContainer(d) THEN \A i \in 1..Len(d.vals) : DefinedLeaves(d.vals[i])
    ELSE d.t \in {"number", "string", "boolean", "null"}

(* [safeAccess(d, p) for p in list] *)
ReadAll(d, list, OP) == [i \in 1..Len(list) |-> safeAccess(d, Str(list[i]), Undefined, OP)]

TraversedTree ==
    /\ call.fn = "depthTraverse"
    /\ call.st = "return"
    /\ ~call.modify
    /\ DotFree(call.before)
    /\ DefinedLeaves(call.before)

(* C24: for a tree of mappings, arrays and defined primitive leaves whose *)
(* keys contain no '.', the values that safeAccess returns for the paths  *)
(* of getAccessorList, in the order of the list, are the values that      *)
(* depthTraverse(T, f) has passed to f, in the order of the calls.        *)
C24_EnumerationMatchesTraversal ==
    TraversedTree =>
        LET l == getAccessorList(call.before)
            reads == ReadAll(call.before, l.list, call.protoBefore)
        IN  /\ l.st = "return"
            /\ \A i \in 1..Len(reads) : reads[i].st = "return"
            /\ call.visited = [i \in 1..Len(reads) |-> reads[i].v]

(* a tree with a mapping and an array inside an array has been traversed *)
C24_Witness ==
    /\ TraversedTree
    /\ HasOwn(call.before, ARR)
    /\ \E i, j \in 1..2 : /\ OwnValue(call.before, ARR).vals[i].t = "object"
                          /\ OwnValue(call.before, ARR).vals[j].t = "array"
    /\ Len(call.visited) = 3
    /\ call.visited = <<Num(1), Num(1), Num(0)>>

(* the paths of list whose first segment is key *)
PathsUnder(list, key) == SelectSeq(list, LAMBDA p : split(p)[1] = key)

(* C25: the enumeration does not descend into the elements of an array:  *)
(* for a key whose value is an array it yields exactly the paths         *)
(* 'key.index', one per element and in index order, and no path it       *)
(* yields has a segment after an array index.                            *)
C25_NoDescentIntoArrayElements ==
    (call.fn = "getAccessorList" /\ call.st = "return" /\ DotFree(call.before)) =>
        /\ \A i \in 1..Len(call.before.keys) :
              isArray(call.before.vals[i]) =>
                  PathsUnder(call.list, call.before.keys[i])
                      = [k \in 1..call.before.vals[i].n |->
                            JoinKey(call.before.keys[i], DecimalString(k - 1))]
        /\ \A i \in 1..Len(call.list) :
              LET segs == split(call.list[i]) IN
              \A j \in 1..(Len(segs) - 1) :
                  ~isArray(IndexKeys(call.before, SubSeq(segs, 1, j - 1)).v)

---------------------------------------------------------------------------
(* Creation of intermediates *)

(* the positions k, k + 1, ... of the segments at which the loop of safeSet, *)
(* at the node d with the segments segs left, creates a mapping              *)
RECURSIVE Creates(_, _, _, _)
Creates(d, segs, k, OP) ==
    IF Len(segs) <= 1 \/ ~ArrayIndexGuard(d, Head(segs)) \/ d.t = "null" THEN {}
    ELSE LET cur == Get(d, Head(segs), OP) IN
         IF typeof(cur) = "undefined" THEN {k} \cup Creates(EmptyObject, Tail(segs), k + 1, OP)
         ELSE IF cur.t = "null" \/ typeof(cur) # "object" THEN {}
         ELSE Creates(cur, Tail(segs), k + 1, OP)

SafeSetAborted ==
    /\ call.fn = "safeSet"
    /\ call.st = "return"
    /\ call.ret = Bool(FALSE)
    /\ call.createMissing

(* C26: when safeSet with createMissing = true returns false, the     *)
(* mappings it created on the way before it aborted are in the tree   *)
(* after the call, at the places where the tree had nothing before.   *)
C26_NoRollback ==
    SafeSetAborted =>
        \A i \in Creates(call.before, CallSegments, 1, call.protoBefore) :
            /\ typeof(IndexPath(call.before, SubSeq(CallSegments, 1, i), call.protoBefore).v)
                   = "undefined"
            /\ IndexPath(data, SubSeq(CallSegments, 1, i), ObjectProto).v.t = "object"

(* safeSet has created a mapping at a and then returned false *)
C26_Witness ==
    /\ SafeSetAborted
    /\ call.operation = "set"
    /\ Creates(call.before, CallSegments, 1, call.protoBefore) = {1}
    /\ call.before = EmptyObject
    /\ data = Obj(<<A>>, <<EmptyObject>>)

---------------------------------------------------------------------------
(* Frame of safeSet *)

(* the sequences of own keys that lead from d to a value, d itself included *)
RECURSIVE NodePaths(_)
NodePaths(d) ==
    {<<>>} \cup
    IF IsContainer(d)
    THEN UNION {{<<d.keys[i]>> \o p : p \in NodePaths(d.vals[i])} : i \in 1..Len(d.keys)}
    ELSE {}

IsPrefix(a, b) == Len(a) <= Len(b) /\ SubSeq(b, 1, Len(a)) = a

(* the container at ks is the one that was there, of the same kind and *)
(* with the keys it had; where the slot held undefined, the call has   *)
(* created the intermediate                                            *)
SameContainer(ks) ==
    LET b == IndexKeys(call.before, ks).v
        a == IndexKeys(data, ks)
    IN  IF IsContainer(b)
        THEN /\ a.ok
             /\ a.v.t = b.t
             /\ \A i \in 1..Len(b.keys) : HasOwn(a.v, b.keys[i])
        ELSE a.ok /\ (a.v = b \/ (b = Undefined /\ call.createMissing))

(* C27: a safeSet that returns true changes the terminal slot that the   *)
(* accessor names and the slots of the intermediates it creates, and     *)
(* nothing else: the root and the intermediates that existed are the     *)
(* containers they were, every key-path that does not pass through the   *)
(* terminal slot has the value it had, every new key-path lies on the    *)
(* accessor, and no object outside the tree has changed.                 *)
C27_SafeSetFrame ==
    (call.fn = "safeSet" /\ call.ret = Bool(TRUE)) =>
        /\ ObjectProto = call.protoBefore
        /\ \A ks \in NodePaths(call.before) :
              IF IsPrefix(CallSegments, ks) THEN TRUE
              ELSE IF IsPrefix(ks, CallSegments) THEN SameContainer(ks)
              ELSE IndexKeys(data, ks) = IndexKeys(call.before, ks)
        /\ \A ks \in NodePaths(data) \ NodePaths(call.before) :
              IsPrefix(ks, CallSegments) \/ IsPrefix(CallSegments, ks)

---------------------------------------------------------------------------
(* Keys of arrays *)

(* safeSet on d reaches an array at which the next segment is not the *)
(* canonical decimal string of a non-negative integer                 *)
RECURSIVE ReachesArrayAtNonCanonical(_, _, _)
ReachesArrayAtNonCanonical(d, segs, OP) ==
    /\ segs # <<>>
    /\ IsContainer(d)
    /\ \/ isArray(d) /\ ~IsArrayIndex(Head(segs))
       \/ /\ isArray(d) => IsArrayIndex(Head(segs))
          /\ ReachesArrayAtNonCanonical(Get(d, Head(segs), OP), Tail(segs), OP)

(* every own key of every array of the tree is an array index *)
RECURSIVE OnlyIndexKeys(_)
OnlyIndexKeys(d) ==
    \A i \in 1..Len(d.keys) :
        /\ isArray(d) => IsArrayIndex(d.keys[i])
        /\ OnlyIndexKeys(d.vals[i])

(* C28: a segment that safeSet uses as the key of an array is the      *)
(* canonical decimal string of a non-negative integer: at any other    *)
(* segment, the empty string included, safeSet returns false and       *)
(* leaves the tree as it was, and no array of the tree gets a property *)
(* that is not an index.                                               *)
C28_CanonicalIndex ==
    (call.fn = "safeSet" /\ typeof(call.accessor) = "string" /\ OnlyIndexKeys(call.before)) =>
        /\ ReachesArrayAtNonCanonical(call.before, CallSegments, call.protoBefore)
              => (call.ret = Bool(FALSE) /\ data = call.before)
        /\ OnlyIndexKeys(data)

---------------------------------------------------------------------------
(* Inherited properties *)

(* following own properties from d, an intermediate segment of segs names *)
(* a property that its node inherits and does not own                     *)
RECURSIVE MeetsInherited(_, _, _)
MeetsInherited(d, segs, OP) ==
    /\ Len(segs) >= 2
    /\ IsContainer(d)
    /\ IF HasOwn(d, Head(segs))
       THEN MeetsInherited(OwnValue(d, Head(segs)), Tail(segs), OP)
       ELSE Get(d, Head(segs), OP) # Undefined

(* C29: safeSet descends into and modifies only containers reachable from *)
(* the root through own properties: Object.prototype is never modified,   *)
(* and an intermediate segment that names an inherited property is        *)
(* treated as missing, so that with createMissing = false safeSet returns *)
(* false and changes nothing.                                             *)
C29_OwnPropertiesOnly ==
    (call.fn = "safeSet" /\ typeof(call.accessor) = "string") =>
        /\ ObjectProto = call.protoBefore
        /\ (MeetsInherited(call.before, CallSegments, call.protoBefore) /\ ~call.createMissing)
              => (call.ret = Bool(FALSE) /\ data = call.before)

---------------------------------------------------------------------------
(* safeSetAll *)

(* the same tree, whatever the order in which the keys of its mappings *)
(* were added                                                          *)
RECURSIVE SameTree(_, _)
SameTree(a, b) ==
    IF IsContainer(a) /\ IsContainer(b)
    THEN /\ a.t = b.t
         /\ a.n = b.n
         /\ a.pr = b.pr
         /\ Len(a.pv) = Len(b.pv)
         /\ \A i \in 1..Len(a.pv) : SameTree(a.pv[i], b.pv[i])
         /\ {a.keys[i] : i \in 1..Len(a.keys)} = {b.keys[i] : i \in 1..Len(b.keys)}
         /\ \A i \in 1..Len(a.keys) : SameTree(a.vals[i], OwnValue(b, a.keys[i]))
    ELSE a = b

(* safeSet applied to one entry after the other, whatever each returns *)
RECURSIVE OneByOne(_, _, _, _)
OneByOne(d, pairs, createMissing, OP) ==
    IF pairs = <<>> THEN [node |-> d, op |-> OP]
    ELSE LET r == safeSet(d, Str(pairs[1][1]), pairs[1][2], "set", createMissing, OP) IN
         OneByOne(r.node, Tail(pairs), createMissing, r.op)

(* the entries of accessorValues in the order of Object.keys *)
Entries(av) == [i \in 1..Len(av.keys) |-> <<av.keys[i], av.vals[i]>>]

Orders(n) == {p \in [1..n -> 1..n] : \A i, j \in 1..n : p[i] = p[j] => i = j}

(* no accessor of the entries is a segment-wise prefix of another *)
PrefixFree(av) ==
    \A i, j \in 1..Len(av.keys) : i # j => ~IsPrefix(split(av.keys[i]), split(av.keys[j]))

SafeSetAllReturned ==
    /\ call.fn = "safeSetAll"
    /\ call.st = "return"

(* C30: safeSetAll leaves the tree that safeSet leaves when applied to   *)
(* the entries one after the other, an entry whose safeSet returns false *)
(* not stopping the later ones; and with operation 'set' and             *)
(* createMissing = true, when no accessor is a segment-wise prefix of    *)
(* another, the entries given in any other order leave the same tree.    *)
C30_SafeSetAll ==
    SafeSetAllReturned =>
        LET pairs == Entries(call.entries)
            seq == OneByOne(call.before, pairs, call.createMissing, call.protoBefore)
        IN  /\ data = seq.node
            /\ ObjectProto = seq.op
            /\ (call.createMissing /\ PrefixFree(call.entries)) =>
                  \A p \in Orders(Len(pairs)) :
                      LET other == safeSetAll(call.before,
                                              ObjectOf([i \in 1..Len(pairs) |-> pairs[p[i]]]),
                                              "set", TRUE, call.protoBefore)
                      IN  /\ other.st = "return"
                          /\ SameTree(other.node, data)
                          /\ SameTree(other.op, ObjectProto)

(* the first entry has aborted at an array, the second has been applied *)
C30_Witness ==
    /\ SafeSetAllReturned
    /\ call.createMissing
    /\ PrefixFree(call.entries)
    /\ call.entries.keys = <<JoinKey(ARR, BOGUS), JoinKey(B, A)>>
    /\ HasOwn(call.before, ARR)
    /\ isArray(OwnValue(call.before, ARR))
    /\ ~HasOwn(call.before, B)
    /\ HasOwn(data, B)
    /\ OwnValue(data, B) = Obj(<<A>>, <<Num(5)>>)
    /\ OwnValue(data, ARR) = OwnValue(call.before, ARR)

---------------------------------------------------------------------------
(* deepFreeze *)

(* the tree with nothing frozen *)
RECURSIVE Thaw(_)
Thaw(d) ==
    [d EXCEPT !.fz = FALSE, !.vals = [i \in 1..Len(d.vals) |-> Thaw(d.vals[i])]]

(* an append to the array is refused *)
RejectsPush(d, OP) == Put(d, DecimalString(d.n), Num(1), OP).st = "TypeError"

(* every container of d is frozen exactly if the path to it crosses no key *)
(* of a mapping that is in skipKeys, crossed telling whether the path to d *)
(* does; a frozen array rejects push                                       *)
RECURSIVE FrozenExceptSkipped(_, _, _, _)
FrozenExceptSkipped(d, skipKeys, crossed, OP) ==
    IsContainer(d) =>
        /\ d.fz = ~crossed
        /\ (isArray(d) /\ ~crossed) => RejectsPush(d, OP)
        /\ \A i \in 1..Len(d.keys) :
              FrozenExceptSkipped(d.vals[i], skipKeys,
                                  crossed \/ (d.t = "object" /\ d.keys[i] \in skipKeys), OP)

DeepFreezeReturned == call.fn = "deepFreeze" /\ call.st = "return"

(* C21: after deepFreeze(data, skipKeys) has returned, the root and every *)
(* array or object reached by a path that crosses no key of a mapping in  *)
(* skipKeys is frozen, and a frozen array rejects push; every container   *)
(* reached through a skipped key is not frozen; without skip keys every   *)
(* container is frozen. The tree holds the values it held.                *)
C21_DeepFreeze ==
    DeepFreezeReturned =>
        /\ FrozenExceptSkipped(data, call.skip.keys, FALSE, ObjectProto)
        /\ call.skip.kind = "undefined" => call.skip.keys = {}
        /\ Thaw(data) = call.before
        /\ call.ret = data

(* a mapping inside a frozen array is frozen although its index is in  *)
(* skipKeys, and a mapping under a skipped key of a mapping is not     *)
C21_Witness ==
    /\ DeepFreezeReturned
    /\ call.skip = SkipSet({A, <<"0">>})
    /\ data.fz
    /\ HasOwn(data, ARR)
    /\ isArray(OwnValue(data, ARR))
    /\ OwnValue(data, ARR).fz
    /\ OwnValue(data, ARR).vals[1].t = "object"
    /\ OwnValue(data, ARR).vals[1].fz
    /\ HasOwn(data, A)
    /\ OwnValue(data, A).t = "object"
    /\ ~OwnValue(data, A).fz

---------------------------------------------------------------------------
(* validate *)

(* what validate returns for the i-th entry of the call alone *)
EntryAlone(i) ==
    validate(call.before, ValidationObject(<<call.validationData.entries[i]>>), call.protoBefore)

EntryFails(i) == EntryAlone(i).st = "return" /\ EntryAlone(i).ret = Bool(FALSE)

(* C22: validate returns true only if no entry of validationData fails  *)
(* its test: when every entry has error: false and at least one entry   *)
(* fails, validate returns false, wherever the failing entry stands.    *)
C22_ValidateEveryEntry ==
    (call.fn = "validate" /\ call.st = "return") =>
        LET n == Len(call.validationData.entries) IN
        /\ call.ret = Bool(TRUE) => \A i \in 1..n : ~EntryFails(i)
        /\ ( /\ \A i \in 1..n : call.validationData.entries[i][2].error = "false"
             /\ \E i \in 1..n : EntryFails(i) )
           => call.ret = Bool(FALSE)

(* The failure channel *)

ValidateFunctions == {"validateArray", "validateEntry", "validateEntryOrArray"}

(* the value the accessor of the call names, undefined when there is none *)
Validated ==
    LET r == IndexPath(call.before, CallSegments, call.protoBefore) IN
    IF r.ok /\ r.v.t # "null" THEN r.v ELSE Undefined

(* the value fails the typeof test or the test against expected of the entry *)
ValueFails(entry, v) ==
    \/ entry.type # "none" /\ typeof(v) # entry.type
    \/ entry.expected.kind \in {"Set", "Array"} /\ v \notin entry.expected.items
    \/ entry.expected.kind = "function" /\ CallExpected(entry.expected.func, v) # "true"

(* a check of the call fails: the value is not an array where an array is *)
(* tested, or the value, or an element of the array, fails the entry      *)
CheckFails ==
    LET v == Validated
        asArray == call.fn = "validateArray" \/ (call.fn = "validateEntryOrArray" /\ isArray(v))
    IN  /\ ~(call.entry.required = "false" /\ v = Undefined)
        /\ IF asArray
           THEN \/ ~isArray(v)
                \/ \E i \in 1..Len(v.vals) : ValueFails(call.entry, v.vals[i])
           ELSE ValueFails(call.entry, v)

(* C23: with error: false a failing check of validateEntry, validateArray *)
(* or validateEntryOrArray returns false and the call never raises; with  *)
(* error true, or left out, the same failing check raises an error that   *)
(* carries _objectValidateError = true.                                   *)
C23_FailureChannel ==
    call.fn \in ValidateFunctions =>
        IF call.entry.error = "false"
        THEN /\ call.st = "return"
             /\ CheckFails => call.ret = Bool(FALSE)
        ELSE CheckFails => (call.st = "throw" /\ call.validateError)

====
